---- MODULE Spec2Model ----
(***************************************************************************)
(* SilenceBot: a Telegram webhook worker.  /muteme restricts the sender    *)
(* for a bounded time, directly (unit token), after a button click (bare   *)
(* number or no argument), or with the default (unparseable token).        *)
(* /setlang lets an administrator pick the chat's language from a prompt;  *)
(* the choice is kept in the KV store CHAT_LANGUAGES.                      *)
(*                                                                         *)
(* Strings the code parses or builds (duration tokens, callback payloads)  *)
(* are sequences of one-character strings, so that the regular             *)
(* expressions, parseInt and the template literals are modelled by what    *)
(* they do.  An optional value (T | null) is <<>> for null and <<v>> for   *)
(* a value.                                                                *)
(*                                                                         *)
(* Spec runs one webhook request at a time, SpecPair two /muteme requests  *)
(* of one user side by side, SpecRedelivery two deliveries of one click.   *)
(* The pure functions are also called directly,                            *)
(* each on its own bounded inputs: SpecCalls (parseDuration,               *)
(* getChatLanguage), SpecPlural (getPluralCategory), SpecResolve           *)
(* (formatTranslation), SpecResolvePlural (formatPluralTranslation),       *)
(* SpecFormat (formatDuration) and SpecButtons (the callback payloads of   *)
(* the prompts and their match).  The translation catalogs are inputs of   *)
(* these calls.                                                            *)
(***************************************************************************)
EXTENDS Integers, Sequences, FiniteSets, TLC

(* ------------------------------ bounds --------------------------------- *)

\* Longest duration token enumerated in full over Alphabet.
MaxLen == 2

\* Telegram user ids are 1..NumUsers.
NumUsers == 2

\* The clock (seconds) runs from 0 to MaxClock.
MaxClock == 1

\* Plural categories are computed for the counts 0..MaxCount.
MaxCount == 125

\* Templates of the resolver are built from 1..MaxPieces pieces.
MaxPieces == 3

\* Durations of 0..MaxMinutes whole minutes are formatted (1500 min = 90000 s).
MaxMinutes == 1500

(* ------------------------------ strings -------------------------------- *)

Null == <<>>

Some(v) == <<v>>

DigitChars == <<"0", "1", "2", "3", "4", "5", "6", "7", "8", "9">>

IsDigit(c) == \E i \in 1..10 : DigitChars[i] = c

DigitValue(c) == (CHOOSE i \in 1..10 : DigitChars[i] = c) - 1

AllDigits(s) == Len(s) >= 1 /\ \A i \in 1..Len(s) : IsDigit(s[i])

RECURSIVE ParseInt(_)
ParseInt(s) ==
    IF s = <<>> THEN 0
    ELSE ParseInt(SubSeq(s, 1, Len(s) - 1)) * 10 + DigitValue(s[Len(s)])

RECURSIVE NumberToString(_)
NumberToString(n) ==
    IF n < 10 THEN <<DigitChars[n + 1]>>
    ELSE NumberToString(n \div 10) \o <<DigitChars[(n % 10) + 1]>>

ToLowerCase(c) ==
    CASE c = "M" -> "m"
      [] c = "H" -> "h"
      [] c = "D" -> "d"
      [] OTHER -> c

StartsWith(s, p) == Len(s) >= Len(p) /\ SubSeq(s, 1, Len(p)) = p

Min(a, b) == IF a <= b THEN a ELSE b

\* Positions of character c in s.
Positions(s, c) == {i \in 1..Len(s) : s[i] = c}

(* --------------------------- duration parser --------------------------- *)

MAX_DURATION == 86400

SECONDS_PER_HOUR == 3600

SECONDS_PER_MINUTE == 60

DEFAULT_DURATION == 1800

\* input.match(/^(\d+)$/), parseInt, value > 0
isNumberWithoutUnit(input) ==
    IF AllDigits(input) /\ ParseInt(input) > 0
    THEN Some(ParseInt(input))
    ELSE Null

\* input.match(/^(\d+)([mhd])$/i): <<>> or <<[digits, unit]>>
DurationMatch(input) ==
    IF /\ Len(input) >= 2
       /\ AllDigits(SubSeq(input, 1, Len(input) - 1))
       /\ input[Len(input)] \in {"m", "h", "d", "M", "H", "D"}
    THEN Some([digits |-> SubSeq(input, 1, Len(input) - 1),
               unit |-> input[Len(input)]])
    ELSE Null

\* parseDuration with the zero-magnitude guard left out
parseDurationNoZeroGuard(input) ==
    LET match == DurationMatch(input) IN
    IF match = Null THEN Null
    ELSE LET value == ParseInt(match[1].digits)
             unit == ToLowerCase(match[1].unit)
             seconds == CASE unit = "m" -> value * 60
                          [] unit = "h" -> value * 3600
                          [] unit = "d" -> value * 86400
         IN Some(Min(seconds, MAX_DURATION))

\* parseDuration with the unit compared before it is lower-cased
parseDurationCaseSensitive(input) ==
    LET match == DurationMatch(input) IN
    IF match = Null THEN Null
    ELSE LET value == ParseInt(match[1].digits)
             unit == match[1].unit
         IN IF value <= 0 THEN Null
            ELSE IF unit \notin {"m", "h", "d"} THEN Null
            ELSE LET seconds == CASE unit = "m" -> value * 60
                                  [] unit = "h" -> value * 3600
                                  [] unit = "d" -> value * 86400
                 IN Some(Min(seconds, MAX_DURATION))

\* parseDuration with the pattern not anchored at the start of the input
parseDurationUnanchored(input) ==
    LET n == Len(input)
        starts == {i \in 1..(n - 1) : AllDigits(SubSeq(input, i, n - 1))}
    IN IF n < 2 \/ starts = {} \/ input[n] \notin {"m", "h", "d", "M", "H", "D"}
       THEN Null
       ELSE LET first == CHOOSE i \in starts : \A j \in starts : i <= j
                value == ParseInt(SubSeq(input, first, n - 1))
                unit == ToLowerCase(input[n])
            IN IF value <= 0 THEN Null
               ELSE LET seconds == CASE unit = "m" -> value * 60
                                     [] unit = "h" -> value * 3600
                                     [] unit = "d" -> value * 86400
                    IN Some(Min(seconds, MAX_DURATION))

parseDuration(input) ==
    LET match == DurationMatch(input) IN
    IF match = Null THEN Null
    ELSE LET value == ParseInt(match[1].digits)
             unit == ToLowerCase(match[1].unit)
         IN IF value <= 0 THEN Null
            ELSE IF unit \notin {"m", "h", "d"} THEN Null
            ELSE LET seconds == CASE unit = "m" -> value * 60
                                  [] unit = "h" -> value * 3600
                                  [] unit = "d" -> value * 86400
                 IN Some(Min(seconds, MAX_DURATION))

(* --------------------------- callback payload -------------------------- *)

MutemePrefix == <<"m", "u", "t", "e", "m", "e", ":">>

\* The template with the amount and the user id in each other's place
MutemeCallbackDataSwapped(userId, amount, unit) ==
    MutemePrefix \o NumberToString(amount) \o <<":">>
                 \o NumberToString(userId) \o <<":", unit>>

\* `muteme:${userId}:${amount}:${unit}`
MutemeCallbackData(userId, amount, unit) ==
    MutemePrefix \o NumberToString(userId) \o <<":">>
                 \o NumberToString(amount) \o <<":", unit>>

\* data.match(/^muteme:(\d+):(\d+):([mhd])$/): <<>> or <<[user, amount, unit]>>
MutemeDataMatch(data) ==
    LET n == Len(data)
        colons == Positions(data, ":")
    IN IF /\ StartsWith(data, MutemePrefix)
          /\ Cardinality(colons) = 3
          /\ n - 1 \in colons
          /\ data[n] \in {"m", "h", "d"}
       THEN LET p2 == CHOOSE p \in colons : p # 7 /\ p # n - 1
                user == SubSeq(data, 8, p2 - 1)
                amount == SubSeq(data, p2 + 1, n - 2)
            IN IF AllDigits(user) /\ AllDigits(amount)
               THEN Some([user |-> user, amount |-> amount, unit |-> data[n]])
               ELSE Null
       ELSE Null

\* The presets of an older draft: no day button
PresetButtonsNoDay(userId) ==
    << MutemeCallbackData(userId, 30, "m"),
       MutemeCallbackData(userId, 8, "h") >>

\* callback_data of the keyboard sent for /muteme without argument
PresetButtons(userId) ==
    << MutemeCallbackData(userId, 30, "m"),
       MutemeCallbackData(userId, 8, "h"),
       MutemeCallbackData(userId, 1, "d") >>

\* callback_data of the keyboard sent for a bare number
AmbiguousButtons(userId, numberValue) ==
    << MutemeCallbackData(userId, numberValue, "m"),
       MutemeCallbackData(userId, numberValue, "h") >>

\* The switch of the click handler without the Math.min cap
CallbackDurationUncapped(amount, unit) ==
    CASE unit = "m" -> amount * 60
      [] unit = "h" -> amount * 3600
      [] unit = "d" -> 86400

\* The switch of the click handler with minutes converted as hours
CallbackDurationMinutesAsHours(amount, unit) ==
    Min(CASE unit = "m" -> amount * 3600
          [] unit = "h" -> amount * 3600
          [] unit = "d" -> 86400, MAX_DURATION)

\* switch (unit) {...}; durationSeconds = Math.min(durationSeconds, MAX_DURATION)
CallbackDuration(amount, unit) ==
    Min(CASE unit = "m" -> amount * 60
          [] unit = "h" -> amount * 3600
          [] unit = "d" -> 86400, MAX_DURATION)

(* ----------------------- plural rules, formatting ---------------------- *)

getEnglishPluralCategory(count) == IF count = 1 THEN "one" ELSE "other"

\* The Ukrainian rule without the exceptions for 11..14
getUkrainianPluralCategoryNoTeens(count) ==
    LET mod10 == count % 10
    IN IF mod10 = 1 THEN "one"
       ELSE IF mod10 >= 2 /\ mod10 <= 4 THEN "few"
       ELSE "many"

\* The rule whose last test forgets the counts that end in 0
getUkrainianPluralCategoryNoZero(count) ==
    LET mod10 == count % 10
        mod100 == count % 100
    IN IF mod10 = 1 /\ mod100 # 11 THEN "one"
       ELSE IF mod10 >= 2 /\ mod10 <= 4 /\ (mod100 < 10 \/ mod100 >= 20) THEN "few"
       ELSE IF (mod10 >= 5 /\ mod10 <= 9) \/ (mod100 >= 11 /\ mod100 <= 14)
            THEN "many"
       ELSE "other"

getUkrainianPluralCategory(count) ==
    LET mod10 == count % 10
        mod100 == count % 100
    IN IF mod10 = 1 /\ mod100 # 11 THEN "one"
       ELSE IF mod10 >= 2 /\ mod10 <= 4 /\ (mod100 < 10 \/ mod100 >= 20) THEN "few"
       ELSE IF mod10 = 0 \/ (mod10 >= 5 /\ mod10 <= 9) \/ (mod100 >= 11 /\ mod100 <= 14)
            THEN "many"
       ELSE "other"

getPluralCategory(count, languageCode) ==
    CASE languageCode = "en" -> getEnglishPluralCategory(count)
      [] languageCode = "uk" -> getUkrainianPluralCategory(count)
      [] OTHER -> getEnglishPluralCategory(count)

\* The phrase formatPluralTranslation resolves: the plural key and the
\* amount substituted for {amount} (always the count).
formatPluralTranslation(baseKey, count, languageCode) ==
    [baseKey |-> baseKey,
     category |-> getPluralCategory(count, languageCode),
     amount |-> NumberToString(count)]

formatDuration(durationSeconds, languageCode) ==
    IF durationSeconds >= MAX_DURATION
    THEN <<formatPluralTranslation("duration.day", 1, languageCode)>>
    ELSE LET hours == durationSeconds \div SECONDS_PER_HOUR
             remainingSeconds == durationSeconds % SECONDS_PER_HOUR
             minutes == remainingSeconds \div SECONDS_PER_MINUTE
             durationMinuteText ==
                 formatPluralTranslation("duration.minute", minutes, languageCode)
         IN IF hours > 0
            THEN LET durationHourText ==
                         formatPluralTranslation("duration.hour", hours, languageCode)
                 IN IF minutes = 0 THEN <<durationHourText>>
                    ELSE <<durationHourText, durationMinuteText>>
            ELSE <<durationMinuteText>>

\* One translated line of a message: the key, the language it is resolved
\* in and the values of its {duration} placeholder (a formatted duration
\* for muteme.success, the raw token for muteme.invalid_duration).
formatTranslation(key, languageCode, duration, token) ==
    [key |-> key, lang |-> languageCode, duration |-> duration, token |-> token]

\* The confirmation with the notice lines swapped
ConfirmationTextSwapped(lang, formattedDuration, requestedDuration, isInvalid, isCapped) ==
    <<formatTranslation("muteme.success", lang, formattedDuration, <<>>)>>
    \o (IF isInvalid
        THEN <<formatTranslation("muteme.duration_capped", lang, <<>>, <<>>)>>
        ELSE IF isCapped
        THEN <<formatTranslation("muteme.invalid_duration", lang, <<>>, requestedDuration)>>
        ELSE <<>>)

\* replyMessage of the command path: the success line and at most one notice
ConfirmationText(lang, formattedDuration, requestedDuration, isInvalid, isCapped) ==
    <<formatTranslation("muteme.success", lang, formattedDuration, <<>>)>>
    \o (IF isInvalid
        THEN <<formatTranslation("muteme.invalid_duration", lang, <<>>, requestedDuration)>>
        ELSE IF isCapped
        THEN <<formatTranslation("muteme.duration_capped", lang, <<>>, <<>>)>>
        ELSE <<>>)

(* ----------------------------- admin check ----------------------------- *)

ADMIN_ROLES == {"administrator", "creator"}

\* What getChatMember can answer: a status, a body without result, or the
\* request fails.
MemberLookups == {"creator", "administrator", "member", "noresult", "throw"}

\* The role test of an older draft that forgets the creator
isChatAdministratorNoCreator(lookup) == lookup = "administrator"

\* The role test that takes a failed lookup for an administrator
isChatAdministratorFailClosed(lookup) ==
    lookup \in {"noresult", "throw"} \/ lookup \in ADMIN_ROLES

\* try { ... ADMIN_ROLES.indexOf(data.result?.status) !== -1 } catch { false }
isChatAdministrator(lookup) ==
    IF lookup \in {"noresult", "throw"} THEN FALSE
    ELSE lookup \in ADMIN_ROLES

(* ------------------------- chat language lookup ------------------------ *)

DEFAULT_LANGUAGE == "en"

ENABLED_LANGUAGES == {"en", "uk"}

\* getChatLanguage returning whatever the store holds
getChatLanguageUnvalidated(stored, kv) ==
    IF kv = "throw" THEN DEFAULT_LANGUAGE
    ELSE IF stored # Null /\ stored[1] # "" THEN stored[1]
    ELSE DEFAULT_LANGUAGE

\* try { stored = await KV.get(key); enabled ? stored : default } catch { default }
getChatLanguage(stored, kv) ==
    IF kv = "throw" THEN DEFAULT_LANGUAGE
    ELSE IF stored # Null /\ stored[1] \in ENABLED_LANGUAGES THEN stored[1]
    ELSE DEFAULT_LANGUAGE

\* A language code as the characters of a callback_data string.
LanguageChars(code) ==
    CASE code = "en" -> <<"e", "n">>
      [] code = "uk" -> <<"u", "k">>
      [] code = "de" -> <<"d", "e">>

\* callbackQuery.data as LanguageCode: the code the characters spell.
LanguageOf(data) ==
    CASE data = <<"e", "n">> -> "en"
      [] data = <<"u", "k">> -> "uk"
      [] data = <<"d", "e">> -> "de"
      [] OTHER -> ""

\* ENABLED_LANGUAGES.map(lang => ({text, callback_data: lang}))
SetLangButtons == << LanguageChars("en"), LanguageChars("uk") >>

(* ------------------------- translation resolver ----------------------- *)

\* A catalog maps the keys it holds to their templates; translationsCache
\* maps 'en' and 'uk' to their catalogs. params is the list of the
\* [name, value] entries of the params object, in insertion order.

\* translations[key]: <<>> for undefined
Entry(translations, key) ==
    IF key \in DOMAIN translations THEN Some(translations[key]) ELSE Null

\* !translation: undefined or the empty string
Falsy(translation) == translation = Null \/ translation = Some(<<>>)

\* translationsCache[languageCode] || translationsCache[DEFAULT_LANGUAGE]
loadTranslations(translationsCache, languageCode) ==
    IF languageCode \in DOMAIN translationsCache
    THEN translationsCache[languageCode]
    ELSE translationsCache[DEFAULT_LANGUAGE]

\* The lookup that tries the default catalog first
getTranslationDefaultFirst(translationsCache, key, languageCode) ==
    LET translation == Entry(translationsCache[DEFAULT_LANGUAGE], key)
    IN IF Falsy(translation)
       THEN Entry(loadTranslations(translationsCache, languageCode), key)
       ELSE translation

getTranslation(translationsCache, key, languageCode) ==
    LET translations == loadTranslations(translationsCache, languageCode)
        translation == Entry(translations, key)
    IN IF Falsy(translation) /\ languageCode # DEFAULT_LANGUAGE
       THEN Entry(translationsCache[DEFAULT_LANGUAGE], key)
       ELSE translation

\* One entry of a params object
Param(name, value) == [name |-> name, value |-> value]

\* `{${paramKey}}`
Placeholder(paramKey) == <<"{">> \o paramKey \o <<"}">>

MatchesAt(text, i, pattern) ==
    /\ i + Len(pattern) - 1 <= Len(text)
    /\ SubSeq(text, i, i + Len(pattern) - 1) = pattern

\* What String.prototype.replace puts in place of one match when the
\* pattern has no capture group: $$ is a dollar sign, $& the matched text,
\* $` the text before the match, $' the text after it.
RECURSIVE GetSubstitution(_, _, _, _)
GetSubstitution(replacement, matched, before, after) ==
    IF replacement = <<>> THEN <<>>
    ELSE IF /\ replacement[1] = "$"
            /\ Len(replacement) >= 2
            /\ replacement[2] \in {"$", "&", "`", "'"}
    THEN (CASE replacement[2] = "$" -> <<"$">>
            [] replacement[2] = "&" -> matched
            [] replacement[2] = "`" -> before
            [] replacement[2] = "'" -> after)
         \o GetSubstitution(SubSeq(replacement, 3, Len(replacement)),
                            matched, before, after)
    ELSE <<replacement[1]>>
         \o GetSubstitution(Tail(replacement), matched, before, after)

\* text.replace(new RegExp(<pattern, escaped>, 'g'), replacement) from
\* position i on
RECURSIVE ReplaceFrom(_, _, _, _)
ReplaceFrom(text, i, pattern, replacement) ==
    IF i > Len(text) THEN <<>>
    ELSE IF MatchesAt(text, i, pattern)
    THEN GetSubstitution(replacement, pattern, SubSeq(text, 1, i - 1),
                         SubSeq(text, i + Len(pattern), Len(text)))
         \o ReplaceFrom(text, i + Len(pattern), pattern, replacement)
    ELSE <<text[i]>> \o ReplaceFrom(text, i + 1, pattern, replacement)

\* for (const [paramKey, paramValue] of Object.entries(params)) ...
RECURSIVE ReplaceParams(_, _)
ReplaceParams(translation, params) ==
    IF params = <<>> THEN translation
    ELSE ReplaceParams(
            ReplaceFrom(translation, 1, Placeholder(params[1].name), params[1].value),
            Tail(params))

\* The text formatTranslation returns: '' when no entry was found
formatTranslationText(translationsCache, key, languageCode, params) ==
    LET translation == getTranslation(translationsCache, key, languageCode)
    IN IF translation = Null THEN <<>>
       ELSE ReplaceParams(translation[1], params)

PluralCategoryChars(pluralCategory) ==
    CASE pluralCategory = "one" -> <<"o", "n", "e">>
      [] pluralCategory = "few" -> <<"f", "e", "w">>
      [] pluralCategory = "many" -> <<"m", "a", "n", "y">>
      [] pluralCategory = "other" -> <<"o", "t", "h", "e", "r">>

\* `${baseKey}.${pluralCategory}`
PluralKey(baseKey, pluralCategory) ==
    baseKey \o <<".">> \o PluralCategoryChars(pluralCategory)

AMOUNT == <<"a", "m", "o", "u", "n", "t">>

\* { ...params, amount: value }: a supplied amount keeps its place and
\* takes the new value, otherwise the entry is added at the end.
SpreadAmount(params, value) ==
    IF \E j \in 1..Len(params) : params[j].name = AMOUNT
    THEN [j \in 1..Len(params) |->
             IF params[j].name = AMOUNT THEN Param(AMOUNT, value) ELSE params[j]]
    ELSE Append(params, Param(AMOUNT, value))

\* The lookup without the fallback to the 'other' form
PluralEntryNoOther(translationsCache, baseKey, count, languageCode) ==
    Entry(loadTranslations(translationsCache, languageCode),
          PluralKey(baseKey, getPluralCategory(count, languageCode)))

\* The entry formatPluralTranslation substitutes into:
\* translations[pluralKey], or translations[otherKey] when that is missing
PluralEntry(translationsCache, baseKey, count, languageCode) ==
    LET pluralCategory == getPluralCategory(count, languageCode)
        translations == loadTranslations(translationsCache, languageCode)
        translation == Entry(translations, PluralKey(baseKey, pluralCategory))
    IN IF Falsy(translation)
       THEN Entry(translations, PluralKey(baseKey, "other"))
       ELSE translation

\* The text formatPluralTranslation returns: '' when no entry was found
formatPluralTranslationText(translationsCache, baseKey, count, languageCode, params) ==
    LET translation == PluralEntry(translationsCache, baseKey, count, languageCode)
        allParams == SpreadAmount(params, NumberToString(count))
    IN IF translation = Null THEN <<>>
       ELSE ReplaceParams(translation[1], allParams)

DURATION_DAY == <<"d", "u", "r", "a", "t", "i", "o", "n", ".", "d", "a", "y">>

DURATION_HOUR == <<"d", "u", "r", "a", "t", "i", "o", "n", ".", "h", "o", "u", "r">>

DURATION_MINUTE == <<"d", "u", "r", "a", "t", "i", "o", "n", ".", "m", "i", "n", "u", "t", "e">>

\* formatDuration that appends the minutes to every hour phrase
formatDurationTextAlwaysMinutes(translationsCache, durationSeconds, languageCode) ==
    IF durationSeconds >= MAX_DURATION
    THEN formatPluralTranslationText(translationsCache, DURATION_DAY, 1,
                                     languageCode, <<>>)
    ELSE LET hours == durationSeconds \div SECONDS_PER_HOUR
             minutes == (durationSeconds % SECONDS_PER_HOUR) \div SECONDS_PER_MINUTE
             durationMinuteText ==
                 formatPluralTranslationText(translationsCache, DURATION_MINUTE, minutes,
                     languageCode, <<Param(AMOUNT, NumberToString(minutes))>>)
         IN IF hours > 0
            THEN formatPluralTranslationText(translationsCache, DURATION_HOUR, hours,
                     languageCode, <<Param(AMOUNT, NumberToString(hours))>>)
                 \o <<" ">> \o durationMinuteText
            ELSE durationMinuteText

\* The text formatDuration returns
formatDurationText(translationsCache, durationSeconds, languageCode) ==
    IF durationSeconds >= MAX_DURATION
    THEN formatPluralTranslationText(translationsCache, DURATION_DAY, 1,
                                     languageCode, <<>>)
    ELSE LET hours == durationSeconds \div SECONDS_PER_HOUR
             remainingSeconds == durationSeconds % SECONDS_PER_HOUR
             minutes == remainingSeconds \div SECONDS_PER_MINUTE
             durationMinuteText ==
                 formatPluralTranslationText(translationsCache, DURATION_MINUTE, minutes,
                     languageCode, <<Param(AMOUNT, NumberToString(minutes))>>)
         IN IF hours > 0
            THEN LET durationHourText ==
                         formatPluralTranslationText(translationsCache, DURATION_HOUR,
                             hours, languageCode,
                             <<Param(AMOUNT, NumberToString(hours))>>)
                 IN IF minutes = 0 THEN durationHourText
                    ELSE durationHourText \o <<" ">> \o durationMinuteText
            ELSE durationMinuteText

(* -------------------------------- inputs ------------------------------- *)

Users == 1..NumUsers

Alphabet == {"0", "1", "m", "d", "H", "-"}

ShortTokens == UNION {[1..n -> Alphabet] : n \in 1..MaxLen}

\* Longer tokens: the cap boundary of each unit, the examples of the
\* documentation, a leading zero, letters only.
ExtraTokens ==
    { <<"5">>, <<"2", "5">>, <<"0", "0", "7">>, <<"1", "h">>, <<"2", "d">>,
      <<"4", "5", "m">>, <<"2", "4", "h">>, <<"2", "5", "h">>, <<"9", "0", "h">>,
      <<"1", "0", "D">>, <<"0", "0", "m">>,
      <<"1", "4", "4", "0", "m">>, <<"1", "4", "4", "1", "M">>,
      <<"a", "b", "c">>, <<"-", "5">>, <<"-", "5", "m">>, <<"3", "0", "s">>, <<"m", "5">> }

\* args[0] of "/muteme ...": <<>> when there is no argument
Arguments == {<<>>} \cup ShortTokens \cup ExtraTokens

\* What a call to the Bot API can do: a 2xx response, another response,
\* or fetch rejects.
Outcomes == {"ok", "notok", "throw"}

(* -------------------------------- state -------------------------------- *)

VARIABLES
    clock,            \* Math.floor(Date.now() / 1000)
    CHAT_LANGUAGES,   \* the KV entry chat:<chatId>: <<>> or <<code>>
    prompt,           \* the latest message with buttons in the chat, or <<>>
    calls,            \* Bot API calls of the requests in flight or last served
    h                 \* per webhook request: position and locals of its handler

vars == <<clock, CHAT_LANGUAGES, prompt, calls, h>>

Slots == DOMAIN h

Idle ==
    [pc |-> "idle", kind |-> "none", status |-> 0,
     userId |-> 0, message_id |-> 0,
     requestedDuration |-> <<>>, data |-> <<>>,
     numberValue |-> Null, parseDurationCalled |-> FALSE, parsedDuration |-> Null,
     durationSeconds |-> 0,
     requestedDurationIsInvalid |-> FALSE, requestedRudationIsCapped |-> FALSE,
     kv |-> "", chatLanguageCode |-> "", now |-> 0, untilDate |-> 0, lookup |-> "",
     authorizedUserId |-> 0, amount |-> 0, unit |-> "",
     languageCode |-> "", hasMessage |-> TRUE, messageHasText |-> TRUE,
     put |-> ""]

Call(s, api, outcome) ==
    [slot |-> s, api |-> api, outcome |-> outcome,
     user_id |-> 0, until_date |-> 0, now |-> 0,
     text |-> <<>>, buttons |-> <<>>, message_id |-> 0, reply_to |-> 0]

Free(s) == h[s].pc = "idle"

\* The calls logged for the request of slot s are dropped.
Forget(s) == SelectSeq(calls, LAMBDA c : c.slot # s)

\* fetch without the try / catch around the handler: 200 in any case
RespondAlwaysOk(f, threw) ==
    [f EXCEPT !.pc = "done", !.status = 200]

\* return new Response(...) of fetch: 500 from the catch block
Respond(f, threw) ==
    [f EXCEPT !.pc = "done", !.status = IF threw THEN 500 ELSE 200]

Init ==
    /\ clock = 0
    /\ CHAT_LANGUAGES = Null
    /\ prompt = <<>>
    /\ calls = <<>>
    /\ h = [s \in {1} |-> Idle]

Tick ==
    /\ clock < MaxClock
    /\ clock' = clock + 1
    /\ UNCHANGED <<CHAT_LANGUAGES, prompt, calls, h>>

\* The response has been returned: the invocation and its locals are gone.
Finish(s) ==
    /\ h[s].pc = "done"
    /\ h' = [h EXCEPT ![s] = Idle]
    /\ calls' = Forget(s)
    /\ UNCHANGED <<clock, CHAT_LANGUAGES, prompt>>

(* -------------------------------- fetch -------------------------------- *)

\* request.method !== 'POST'
FetchMethodNotAllowed(s) ==
    /\ Free(s)
    /\ h' = [h EXCEPT ![s] = [Idle EXCEPT !.pc = "done", !.kind = "notPost",
                                          !.status = 405]]
    /\ UNCHANGED <<clock, CHAT_LANGUAGES, prompt, calls>>

\* await request.json() throws
FetchInvalidJson(s) ==
    /\ Free(s)
    /\ h' = [h EXCEPT ![s] = Respond([Idle EXCEPT !.kind = "invalidJson"], TRUE)]
    /\ UNCHANGED <<clock, CHAT_LANGUAGES, prompt, calls>>

\* a message whose text is no command of the bot, or an update without
\* message text and without callback_query
FetchIgnored(s) ==
    /\ Free(s)
    /\ h' = [h EXCEPT ![s] = Respond([Idle EXCEPT !.kind = "ignored"], FALSE)]
    /\ UNCHANGED <<clock, CHAT_LANGUAGES, prompt, calls>>

\* message.text.startsWith('/muteme'): handleMutemeCommand up to its first await
FetchMutemeCommand(s) ==
    /\ Free(s)
    /\ \E userId \in Users, arg \in Arguments :
          h' = [h EXCEPT ![s] =
                  [Idle EXCEPT !.pc = "getChatLanguage", !.kind = "muteme",
                               !.userId = userId, !.message_id = 1,
                               !.requestedDuration = arg,
                               !.durationSeconds = DEFAULT_DURATION]]
    /\ prompt' = <<>>
    /\ UNCHANGED <<clock, CHAT_LANGUAGES, calls>>

(* ------------------------- handleMutemeCommand ------------------------- *)

\* Classify with the capped flag also set on the branch of a failed parse
ClassifyCappedOnInvalid(f, lang, time) ==
    LET rd == f.requestedDuration
        g == [f EXCEPT !.chatLanguageCode = lang]
    IN IF rd # <<>> /\ isNumberWithoutUnit(rd) # Null
       THEN [g EXCEPT !.numberValue = isNumberWithoutUnit(rd),
                      !.pc = "sendAmbiguousPrompt"]
       ELSE IF rd # <<>>
       THEN LET parsedDuration == parseDuration(rd)
                durationSeconds == IF parsedDuration # Null THEN parsedDuration[1]
                                   ELSE f.durationSeconds
            IN [g EXCEPT !.parseDurationCalled = TRUE,
                         !.parsedDuration = parsedDuration,
                         !.durationSeconds = durationSeconds,
                         !.requestedRudationIsCapped =
                             parsedDuration = Null \/ parsedDuration[1] > 86400,
                         !.requestedDurationIsInvalid = (parsedDuration = Null),
                         !.now = time,
                         !.untilDate = time + durationSeconds,
                         !.pc = "isChatAdministrator"]
       ELSE [g EXCEPT !.pc = "sendPresetPrompt"]

\* The synchronous code between getChatLanguage and the next await:
\* bare-number check, parseDuration, the two flags, untilDate.
Classify(f, lang, time) ==
    LET rd == f.requestedDuration
        g == [f EXCEPT !.chatLanguageCode = lang]
    IN IF rd # <<>> /\ isNumberWithoutUnit(rd) # Null
       THEN [g EXCEPT !.numberValue = isNumberWithoutUnit(rd),
                      !.pc = "sendAmbiguousPrompt"]
       ELSE IF rd # <<>>
       THEN LET parsedDuration == parseDuration(rd)
                durationSeconds == IF parsedDuration # Null THEN parsedDuration[1]
                                   ELSE f.durationSeconds
            IN [g EXCEPT !.parseDurationCalled = TRUE,
                         !.parsedDuration = parsedDuration,
                         !.durationSeconds = durationSeconds,
                         !.requestedRudationIsCapped =
                             parsedDuration # Null /\ parsedDuration[1] > 86400,
                         !.requestedDurationIsInvalid = (parsedDuration = Null),
                         !.now = time,
                         !.untilDate = time + durationSeconds,
                         !.pc = "isChatAdministrator"]
       ELSE [g EXCEPT !.pc = "sendPresetPrompt"]

CmdGetChatLanguage(s) ==
    /\ h[s].pc = "getChatLanguage"
    /\ \E kv \in {"ok", "throw"} :
          h' = [h EXCEPT ![s] = Classify(h[s], getChatLanguage(CHAT_LANGUAGES, kv), clock)]
    /\ UNCHANGED <<clock, CHAT_LANGUAGES, prompt, calls>>

\* sendMessage(promptMessage, message_id, {replyMarkup}) with the given
\* buttons; Telegram gives the prompt the next message id.
SendPrompt(s, buttons) ==
    \E outcome \in Outcomes :
       /\ calls' = Append(calls,
             [Call(s, "sendMessage", outcome) EXCEPT
                 !.text = <<formatTranslation("muteme.prompt", h[s].chatLanguageCode,
                                              <<>>, <<>>)>>,
                 !.buttons = buttons,
                 !.reply_to = h[s].message_id])
       /\ prompt' = IF outcome = "ok"
                    THEN <<[message_id |-> h[s].message_id + 1,
                            reply_to |-> h[s].message_id,
                            buttons |-> buttons]>>
                    ELSE prompt
       /\ h' = [h EXCEPT ![s] = Respond(h[s], outcome = "throw")]

CmdSendAmbiguousPrompt(s) ==
    /\ h[s].pc = "sendAmbiguousPrompt"
    /\ SendPrompt(s, AmbiguousButtons(h[s].userId, h[s].numberValue[1]))
    /\ UNCHANGED <<clock, CHAT_LANGUAGES>>

CmdSendPresetPrompt(s) ==
    /\ h[s].pc = "sendPresetPrompt"
    /\ SendPrompt(s, PresetButtons(h[s].userId))
    /\ UNCHANGED <<clock, CHAT_LANGUAGES>>

CmdIsChatAdministrator(s) ==
    /\ h[s].pc = "isChatAdministrator"
    /\ \E lookup \in MemberLookups :
          h' = [h EXCEPT ![s].lookup = lookup,
                         ![s].pc = IF isChatAdministrator(lookup)
                                   THEN "sendIsAdmin" ELSE "restrictChatMember"]
    /\ UNCHANGED <<clock, CHAT_LANGUAGES, prompt, calls>>

CmdSendIsAdmin(s) ==
    /\ h[s].pc = "sendIsAdmin"
    /\ \E outcome \in Outcomes :
          /\ calls' = Append(calls,
                [Call(s, "sendMessage", outcome) EXCEPT
                    !.text = <<formatTranslation("muteme.error.is_admin",
                                                 h[s].chatLanguageCode, <<>>, <<>>)>>,
                    !.reply_to = h[s].message_id])
          /\ h' = [h EXCEPT ![s] = Respond(h[s], outcome = "throw")]
    /\ UNCHANGED <<clock, CHAT_LANGUAGES, prompt>>

\* The restrict step behind a per-user lock: it waits while another request
\* sits between its own restriction and its confirmation
CmdRestrictChatMemberLocked(s) ==
    /\ h[s].pc = "restrictChatMember"
    /\ \A t \in Slots \ {s} : h[t].pc # "sendConfirmation"
    /\ \E outcome \in Outcomes :
          /\ calls' = Append(calls,
                [Call(s, "restrictChatMember", outcome) EXCEPT
                    !.user_id = h[s].userId,
                    !.until_date = h[s].untilDate,
                    !.now = h[s].now])
          /\ h' = [h EXCEPT ![s] = IF outcome = "ok"
                                   THEN [h[s] EXCEPT !.pc = "sendConfirmation"]
                                   ELSE Respond(h[s], TRUE)]
    /\ UNCHANGED <<clock, CHAT_LANGUAGES, prompt>>

\* The restrict step with restrictResponse.ok not inspected
CmdRestrictChatMemberUnchecked(s) ==
    /\ h[s].pc = "restrictChatMember"
    /\ \E outcome \in Outcomes :
          /\ calls' = Append(calls,
                [Call(s, "restrictChatMember", outcome) EXCEPT
                    !.user_id = h[s].userId,
                    !.until_date = h[s].untilDate,
                    !.now = h[s].now])
          /\ h' = [h EXCEPT ![s] = IF outcome # "throw"
                                   THEN [h[s] EXCEPT !.pc = "sendConfirmation"]
                                   ELSE Respond(h[s], TRUE)]
    /\ UNCHANGED <<clock, CHAT_LANGUAGES, prompt>>

\* A response that is not ok makes the handler throw.
CmdRestrictChatMember(s) ==
    /\ h[s].pc = "restrictChatMember"
    /\ \E outcome \in Outcomes :
          /\ calls' = Append(calls,
                [Call(s, "restrictChatMember", outcome) EXCEPT
                    !.user_id = h[s].userId,
                    !.until_date = h[s].untilDate,
                    !.now = h[s].now])
          /\ h' = [h EXCEPT ![s] = IF outcome = "ok"
                                   THEN [h[s] EXCEPT !.pc = "sendConfirmation"]
                                   ELSE Respond(h[s], TRUE)]
    /\ UNCHANGED <<clock, CHAT_LANGUAGES, prompt>>

\* The confirmation that always announces the default duration
CmdSendConfirmationDefault(s) ==
    /\ h[s].pc = "sendConfirmation"
    /\ \E outcome \in Outcomes :
          /\ calls' = Append(calls,
                [Call(s, "sendMessage", outcome) EXCEPT
                    !.text = ConfirmationText(
                                h[s].chatLanguageCode,
                                formatDuration(DEFAULT_DURATION, h[s].chatLanguageCode),
                                h[s].requestedDuration,
                                h[s].requestedDurationIsInvalid,
                                h[s].requestedRudationIsCapped),
                    !.reply_to = h[s].message_id])
          /\ h' = [h EXCEPT ![s] = Respond(h[s], outcome = "throw")]
    /\ UNCHANGED <<clock, CHAT_LANGUAGES, prompt>>

\* A response that is not ok is only logged.
CmdSendConfirmation(s) ==
    /\ h[s].pc = "sendConfirmation"
    /\ \E outcome \in Outcomes :
          /\ calls' = Append(calls,
                [Call(s, "sendMessage", outcome) EXCEPT
                    !.text = ConfirmationText(
                                h[s].chatLanguageCode,
                                formatDuration(h[s].durationSeconds, h[s].chatLanguageCode),
                                h[s].requestedDuration,
                                h[s].requestedDurationIsInvalid,
                                h[s].requestedRudationIsCapped),
                    !.reply_to = h[s].message_id])
          /\ h' = [h EXCEPT ![s] = Respond(h[s], outcome = "throw")]
    /\ UNCHANGED <<clock, CHAT_LANGUAGES, prompt>>

(* ---------------------- handleMutemeCallbackQuery ---------------------- *)

\* The click handler with the author check left out
AuthorizedAlways(userId, authorizedUserId) == TRUE

\* !(userId !== authorizedUserId)
Authorized(userId, authorizedUserId) == userId = authorizedUserId

\* The synchronous code of the click handler up to its first await: the
\* payload pattern, the author check, the duration.
\* The handler that answers a payload it cannot read the way it answers a
\* click of the wrong user
DecodeAnswersInvalid(f) ==
    LET match == MutemeDataMatch(f.data) IN
    IF ~f.hasMessage \/ f.data = <<>> \/ match = Null
    THEN [f EXCEPT !.pc = "cbGetChatLanguageUnauthorized"]
    ELSE LET authorizedUserId == ParseInt(match[1].user)
             amount == ParseInt(match[1].amount)
             unit == match[1].unit
             g == [f EXCEPT !.authorizedUserId = authorizedUserId,
                            !.amount = amount, !.unit = unit]
         IN IF ~Authorized(f.userId, authorizedUserId)
            THEN [g EXCEPT !.pc = "cbGetChatLanguageUnauthorized"]
            ELSE [g EXCEPT !.durationSeconds = CallbackDuration(amount, unit),
                           !.pc = "cbGetChatLanguage"]

\* The first lines of handleMutemeCallbackQuery: without a chat, without
\* data or with data the pattern does not match it returns at once.
Decode(f) ==
    LET match == MutemeDataMatch(f.data) IN
    IF ~f.hasMessage \/ f.data = <<>> \/ match = Null
    THEN Respond(f, FALSE)
    ELSE LET authorizedUserId == ParseInt(match[1].user)
             amount == ParseInt(match[1].amount)
             unit == match[1].unit
             g == [f EXCEPT !.authorizedUserId = authorizedUserId,
                            !.amount = amount, !.unit = unit]
         IN IF ~Authorized(f.userId, authorizedUserId)
            THEN [g EXCEPT !.pc = "cbGetChatLanguageUnauthorized"]
            ELSE [g EXCEPT !.durationSeconds = CallbackDuration(amount, unit),
                           !.pc = "cbGetChatLanguage"]

\* callback_data that starts with 'muteme:' and is no payload: the prefix
\* alone, a unit that does not exist
MalformedMutemeData ==
    { MutemePrefix, MutemePrefix \o <<"1", ":", "5", ":", "s">> }

\* callback_data of the buttons of the latest prompt
PromptData ==
    IF prompt = <<>> THEN {}
    ELSE {prompt[1].buttons[i] : i \in 1..Len(prompt[1].buttons)}

\* A callback_query whose data starts with 'muteme:' (the routing of
\* fetch): a user clicks a button of the prompt, or the update carries
\* data that is no payload; callbackQuery.message can be missing.
FetchMutemeCallback(s) ==
    /\ Free(s)
    /\ \E userId \in Users, hasMessage \in BOOLEAN,
          data \in PromptData \cup MalformedMutemeData :
          /\ StartsWith(data, MutemePrefix)
          /\ h' = [h EXCEPT ![s] =
                     Decode([Idle EXCEPT !.kind = "mutemeCallback",
                                         !.userId = userId,
                                         !.hasMessage = hasMessage,
                                         !.message_id = IF prompt = <<>> THEN 0
                                                        ELSE prompt[1].message_id,
                                         !.data = data])]
    /\ UNCHANGED <<clock, CHAT_LANGUAGES, prompt, calls>>

CbGetChatLanguageUnauthorized(s) ==
    /\ h[s].pc = "cbGetChatLanguageUnauthorized"
    /\ \E kv \in {"ok", "throw"} :
          h' = [h EXCEPT ![s].chatLanguageCode = getChatLanguage(CHAT_LANGUAGES, kv),
                         ![s].pc = "cbAnswerUnauthorized"]
    /\ UNCHANGED <<clock, CHAT_LANGUAGES, prompt, calls>>

\* answerCallbackQuery(callbackQuery.id, text) and return
Answer(s, key) ==
    \E outcome \in Outcomes :
       /\ calls' = Append(calls,
             [Call(s, "answerCallbackQuery", outcome) EXCEPT
                 !.text = <<formatTranslation(key, h[s].chatLanguageCode, <<>>, <<>>)>>])
       /\ h' = [h EXCEPT ![s] = Respond(h[s], outcome = "throw")]

CbAnswerUnauthorized(s) ==
    /\ h[s].pc = "cbAnswerUnauthorized"
    /\ Answer(s, "muteme.error.unauthorized")
    /\ UNCHANGED <<clock, CHAT_LANGUAGES, prompt>>

CbGetChatLanguage(s) ==
    /\ h[s].pc = "cbGetChatLanguage"
    /\ \E kv \in {"ok", "throw"} :
          h' = [h EXCEPT ![s].chatLanguageCode = getChatLanguage(CHAT_LANGUAGES, kv),
                         ![s].pc = "cbIsChatAdministrator"]
    /\ UNCHANGED <<clock, CHAT_LANGUAGES, prompt, calls>>

\* The admin check, then untilDate from the clock read after it.
CbIsChatAdministrator(s) ==
    /\ h[s].pc = "cbIsChatAdministrator"
    /\ \E lookup \in MemberLookups :
          h' = [h EXCEPT ![s] =
                  IF isChatAdministrator(lookup)
                  THEN [h[s] EXCEPT !.lookup = lookup, !.pc = "cbAnswerIsAdmin"]
                  ELSE [h[s] EXCEPT !.lookup = lookup,
                                    !.now = clock,
                                    !.untilDate = clock + h[s].durationSeconds,
                                    !.pc = "cbRestrictChatMember"]]
    /\ UNCHANGED <<clock, CHAT_LANGUAGES, prompt, calls>>

CbAnswerIsAdmin(s) ==
    /\ h[s].pc = "cbAnswerIsAdmin"
    /\ Answer(s, "muteme.error.is_admin")
    /\ UNCHANGED <<clock, CHAT_LANGUAGES, prompt>>

\* The restrict step that skips the call when another delivery of the
\* click has already restricted the user
CbRestrictChatMemberOnce(s) ==
    /\ h[s].pc = "cbRestrictChatMember"
    /\ IF \E i \in 1..Len(calls) :
             /\ calls[i].slot # s
             /\ calls[i].api = "restrictChatMember"
             /\ calls[i].outcome = "ok"
             /\ calls[i].user_id = h[s].userId
       THEN /\ calls' = calls
            /\ h' = [h EXCEPT ![s] = Respond(h[s], FALSE)]
       ELSE \E outcome \in Outcomes :
          /\ calls' = Append(calls,
                [Call(s, "restrictChatMember", outcome) EXCEPT
                    !.user_id = h[s].userId,
                    !.until_date = h[s].untilDate,
                    !.now = h[s].now])
          /\ h' = [h EXCEPT ![s] =
                     CASE outcome = "ok" -> [h[s] EXCEPT !.pc = "cbDeleteMessage"]
                       [] outcome = "notok" -> [h[s] EXCEPT !.pc = "cbAnswerApiFailed"]
                       [] outcome = "throw" -> Respond(h[s], TRUE)]
    /\ UNCHANGED <<clock, CHAT_LANGUAGES, prompt>>

\* A response that is not ok leads to the api_failed answer, not to a throw.
CbRestrictChatMember(s) ==
    /\ h[s].pc = "cbRestrictChatMember"
    /\ \E outcome \in Outcomes :
          /\ calls' = Append(calls,
                [Call(s, "restrictChatMember", outcome) EXCEPT
                    !.user_id = h[s].userId,
                    !.until_date = h[s].untilDate,
                    !.now = h[s].now])
          /\ h' = [h EXCEPT ![s] =
                     CASE outcome = "ok" -> [h[s] EXCEPT !.pc = "cbDeleteMessage"]
                       [] outcome = "notok" -> [h[s] EXCEPT !.pc = "cbAnswerApiFailed"]
                       [] outcome = "throw" -> Respond(h[s], TRUE)]
    /\ UNCHANGED <<clock, CHAT_LANGUAGES, prompt>>

CbAnswerApiFailed(s) ==
    /\ h[s].pc = "cbAnswerApiFailed"
    /\ Answer(s, "error.api_failed")
    /\ UNCHANGED <<clock, CHAT_LANGUAGES, prompt>>

\* The delete step with a response that is not ok treated as fatal
CbDeleteMessageFatal(s) ==
    /\ h[s].pc = "cbDeleteMessage"
    /\ \E outcome \in Outcomes :
          /\ calls' = Append(calls,
                [Call(s, "deleteMessage", outcome) EXCEPT
                    !.message_id = h[s].message_id])
          /\ prompt' = IF /\ outcome = "ok"
                          /\ prompt # <<>>
                          /\ prompt[1].message_id = h[s].message_id
                       THEN <<>> ELSE prompt
          /\ h' = [h EXCEPT ![s] = IF outcome # "ok" THEN Respond(h[s], TRUE)
                                   ELSE [h[s] EXCEPT !.pc = "cbSendConfirmation"]]
    /\ UNCHANGED <<clock, CHAT_LANGUAGES>>

\* deleteMessage(chatId, callbackQuery.message.message_id); a response
\* that is not ok is only logged.
CbDeleteMessage(s) ==
    /\ h[s].pc = "cbDeleteMessage"
    /\ \E outcome \in Outcomes :
          /\ calls' = Append(calls,
                [Call(s, "deleteMessage", outcome) EXCEPT
                    !.message_id = h[s].message_id])
          /\ prompt' = IF /\ outcome = "ok"
                          /\ prompt # <<>>
                          /\ prompt[1].message_id = h[s].message_id
                       THEN <<>> ELSE prompt
          /\ h' = [h EXCEPT ![s] = IF outcome = "throw" THEN Respond(h[s], TRUE)
                                   ELSE [h[s] EXCEPT !.pc = "cbSendConfirmation"]]
    /\ UNCHANGED <<clock, CHAT_LANGUAGES>>

CbSendConfirmation(s) ==
    /\ h[s].pc = "cbSendConfirmation"
    /\ \E outcome \in Outcomes :
          /\ calls' = Append(calls,
                [Call(s, "sendMessage", outcome) EXCEPT
                    !.text = <<formatTranslation(
                                 "muteme.success", h[s].chatLanguageCode,
                                 formatDuration(h[s].durationSeconds, h[s].chatLanguageCode),
                                 <<>>)>>])
          /\ h' = [h EXCEPT ![s] = Respond(h[s], outcome = "throw")]
    /\ UNCHANGED <<clock, CHAT_LANGUAGES, prompt>>

(* ------------------------ sendSetLangPromptReply ------------------------ *)

\* message.text.startsWith('/setlang'): the handler up to its first await
FetchSetLangCommand(s) ==
    /\ Free(s)
    /\ \E userId \in Users :
          h' = [h EXCEPT ![s] =
                  [Idle EXCEPT !.pc = "slGetChatLanguage", !.kind = "setlang",
                               !.userId = userId, !.message_id = 1]]
    /\ prompt' = <<>>
    /\ UNCHANGED <<clock, CHAT_LANGUAGES, calls>>

SlGetChatLanguage(s) ==
    /\ h[s].pc = "slGetChatLanguage"
    /\ \E kv \in {"ok", "throw"} :
          h' = [h EXCEPT ![s].kv = kv,
                         ![s].chatLanguageCode = getChatLanguage(CHAT_LANGUAGES, kv),
                         ![s].pc = "slIsChatAdministrator"]
    /\ UNCHANGED <<clock, CHAT_LANGUAGES, prompt, calls>>

SlIsChatAdministrator(s) ==
    /\ h[s].pc = "slIsChatAdministrator"
    /\ \E lookup \in MemberLookups :
          h' = [h EXCEPT ![s].lookup = lookup,
                         ![s].pc = IF ~isChatAdministrator(lookup)
                                   THEN "slSendNotAdmin" ELSE "slSendPrompt"]
    /\ UNCHANGED <<clock, CHAT_LANGUAGES, prompt, calls>>

\* sendMessage(chatId, replyMessage) of one translated line, and return
Refuse(s, key) ==
    \E outcome \in Outcomes :
       /\ calls' = Append(calls,
             [Call(s, "sendMessage", outcome) EXCEPT
                 !.text = <<formatTranslation(key, h[s].chatLanguageCode, <<>>, <<>>)>>])
       /\ h' = [h EXCEPT ![s] = Respond(h[s], outcome = "throw")]

\* The refusal without the return after it: the prompt follows
SlSendNotAdminNoReturn(s) ==
    /\ h[s].pc = "slSendNotAdmin"
    /\ \E outcome \in Outcomes :
          /\ calls' = Append(calls,
                [Call(s, "sendMessage", outcome) EXCEPT
                    !.text = <<formatTranslation("language.set.error.not_admin",
                                                 h[s].chatLanguageCode, <<>>, <<>>)>>])
          /\ h' = [h EXCEPT ![s] = IF outcome = "throw" THEN Respond(h[s], TRUE)
                                   ELSE [h[s] EXCEPT !.pc = "slSendPrompt"]]
    /\ UNCHANGED <<clock, CHAT_LANGUAGES, prompt>>

SlSendNotAdmin(s) ==
    /\ h[s].pc = "slSendNotAdmin"
    /\ Refuse(s, "language.set.error.not_admin")
    /\ UNCHANGED <<clock, CHAT_LANGUAGES, prompt>>

\* sendMessage(chatId, prompt, undefined, {replyMarkup}); Telegram gives the
\* prompt the next message id.
SlSendPrompt(s) ==
    /\ h[s].pc = "slSendPrompt"
    /\ \E outcome \in Outcomes :
          /\ calls' = Append(calls,
                [Call(s, "sendMessage", outcome) EXCEPT
                    !.text = <<formatTranslation("language.set.prompt",
                                                 h[s].chatLanguageCode, <<>>, <<>>)>>,
                    !.buttons = SetLangButtons])
          /\ prompt' = IF outcome = "ok"
                       THEN <<[message_id |-> h[s].message_id + 1,
                               reply_to |-> 0,
                               buttons |-> SetLangButtons]>>
                       ELSE prompt
          /\ h' = [h EXCEPT ![s] = Respond(h[s], outcome = "throw")]
    /\ UNCHANGED <<clock, CHAT_LANGUAGES>>

(* ---------------------- handleSetLangCallbackQuery ---------------------- *)

\* callback_data of a button that an earlier deployment left in the chat
StaleLanguageData == {LanguageChars("de")}

\* The first lines of handleSetLangCallbackQuery: without a chat or without
\* data it returns at once.
SetLangCallbackFrame(userId, hasMessage, hasText, data, message_id) ==
    LET f == [Idle EXCEPT !.kind = "setlangCallback",
                          !.userId = userId,
                          !.message_id = message_id,
                          !.data = data,
                          !.languageCode = LanguageOf(data),
                          !.hasMessage = hasMessage,
                          !.messageHasText = hasMessage /\ hasText]
    IN IF ~hasMessage \/ data = <<>> THEN Respond(f, FALSE)
       ELSE [f EXCEPT !.pc = "scGetChatLanguage"]

\* The routing that hands every callback_query to the language handler
FetchSetLangCallbackAnyData(s) ==
    /\ Free(s)
    /\ \E userId \in Users, hasMessage \in BOOLEAN, hasText \in BOOLEAN,
          data \in {<<>>} \cup StaleLanguageData \cup PromptData :
          /\ hasText => hasMessage
          /\ h' = [h EXCEPT ![s] =
                     SetLangCallbackFrame(userId, hasMessage, hasText, data,
                                          IF prompt = <<>> THEN 0
                                          ELSE prompt[1].message_id)]
    /\ UNCHANGED <<clock, CHAT_LANGUAGES, prompt, calls>>

\* A callback_query whose data does not start with 'muteme:': a button of
\* the latest prompt, a stale button, or no data at all; its message can
\* be missing, or be there without text.
FetchSetLangCallback(s) ==
    /\ Free(s)
    /\ \E userId \in Users, hasMessage \in BOOLEAN, hasText \in BOOLEAN,
          data \in {<<>>} \cup StaleLanguageData \cup PromptData :
          /\ hasText => hasMessage
          /\ ~StartsWith(data, MutemePrefix)
          /\ h' = [h EXCEPT ![s] =
                     SetLangCallbackFrame(userId, hasMessage, hasText, data,
                                          IF prompt = <<>> THEN 0
                                          ELSE prompt[1].message_id)]
    /\ UNCHANGED <<clock, CHAT_LANGUAGES, prompt, calls>>

ScGetChatLanguage(s) ==
    /\ h[s].pc = "scGetChatLanguage"
    /\ \E kv \in {"ok", "throw"} :
          h' = [h EXCEPT ![s].kv = kv,
                         ![s].chatLanguageCode = getChatLanguage(CHAT_LANGUAGES, kv),
                         ![s].pc = "scIsChatAdministrator"]
    /\ UNCHANGED <<clock, CHAT_LANGUAGES, prompt, calls>>

\* The language change with the role check left out
AfterAdminCheckNoRole(f, lookup) ==
    LET g == [f EXCEPT !.lookup = lookup] IN
    IF ~g.messageHasText THEN Respond(g, FALSE)
    ELSE IF g.languageCode \notin ENABLED_LANGUAGES
    THEN [g EXCEPT !.pc = "scSendInvalidLanguage"]
    ELSE [g EXCEPT !.pc = "setChatLanguage"]

\* The checks between the role lookup and the next await: the role, the
\* message being accessible, the language code being enabled.
AfterAdminCheck(f, lookup) ==
    LET g == [f EXCEPT !.lookup = lookup] IN
    IF ~isChatAdministrator(lookup) THEN [g EXCEPT !.pc = "scSendNotAdmin"]
    ELSE IF ~g.messageHasText THEN Respond(g, FALSE)
    ELSE IF g.languageCode \notin ENABLED_LANGUAGES
    THEN [g EXCEPT !.pc = "scSendInvalidLanguage"]
    ELSE [g EXCEPT !.pc = "setChatLanguage"]

ScIsChatAdministrator(s) ==
    /\ h[s].pc = "scIsChatAdministrator"
    /\ \E lookup \in MemberLookups :
          h' = [h EXCEPT ![s] = AfterAdminCheck(h[s], lookup)]
    /\ UNCHANGED <<clock, CHAT_LANGUAGES, prompt, calls>>

ScSendNotAdmin(s) ==
    /\ h[s].pc = "scSendNotAdmin"
    /\ Refuse(s, "language.set.error.not_admin")
    /\ UNCHANGED <<clock, CHAT_LANGUAGES, prompt>>

ScSendInvalidLanguage(s) ==
    /\ h[s].pc = "scSendInvalidLanguage"
    /\ Refuse(s, "language.set.error.invalid_language")
    /\ UNCHANGED <<clock, CHAT_LANGUAGES, prompt>>

\* setChatLanguage whose catch block logs the failure and does not rethrow
ScSetChatLanguageSwallowed(s) ==
    /\ h[s].pc = "setChatLanguage"
    /\ \E put \in {"ok", "throw"} :
          /\ CHAT_LANGUAGES' \in
                IF put = "ok" THEN {Some(h[s].languageCode)}
                ELSE {CHAT_LANGUAGES, Some(h[s].languageCode)}
          /\ h' = [h EXCEPT ![s].put = put,
                            ![s].pc = "scAnswerCallbackQuery"]
    /\ UNCHANGED <<clock, prompt, calls>>

\* setChatLanguage: KV.put(key, languageCode); a failure is rethrown.  A
\* put that failed may or may not have stored the value.
ScSetChatLanguage(s) ==
    /\ h[s].pc = "setChatLanguage"
    /\ \E put \in {"ok", "throw"} :
          IF put = "ok"
          THEN /\ CHAT_LANGUAGES' = Some(h[s].languageCode)
               /\ h' = [h EXCEPT ![s].put = put,
                                 ![s].pc = "scAnswerCallbackQuery"]
          ELSE /\ CHAT_LANGUAGES' \in {CHAT_LANGUAGES, Some(h[s].languageCode)}
               /\ h' = [h EXCEPT ![s] = Respond([h[s] EXCEPT !.put = put], TRUE)]
    /\ UNCHANGED <<clock, prompt, calls>>

\* The success text resolved in the chat's previous language
SuccessLanguagePrevious(f) == f.chatLanguageCode

\* formatTranslation('language.set.success', languageCode, ...)
SuccessLanguage(f) == f.languageCode

\* answerCallbackQuery(id, replyMessage); a response that is not ok is
\* only logged.
ScAnswerCallbackQuery(s) ==
    /\ h[s].pc = "scAnswerCallbackQuery"
    /\ \E outcome \in Outcomes :
          /\ calls' = Append(calls,
                [Call(s, "answerCallbackQuery", outcome) EXCEPT
                    !.text = <<formatTranslation("language.set.success",
                                                 SuccessLanguage(h[s]), <<>>, <<>>)>>])
          /\ h' = [h EXCEPT ![s] = IF outcome = "throw" THEN Respond(h[s], TRUE)
                                   ELSE [h[s] EXCEPT !.pc = "scDeleteMessage"]]
    /\ UNCHANGED <<clock, CHAT_LANGUAGES, prompt>>

\* deleteMessage(chatId, callbackQuery.message.message_id); a response
\* that is not ok is only logged.
ScDeleteMessage(s) ==
    /\ h[s].pc = "scDeleteMessage"
    /\ \E outcome \in Outcomes :
          /\ calls' = Append(calls,
                [Call(s, "deleteMessage", outcome) EXCEPT
                    !.message_id = h[s].message_id])
          /\ prompt' = IF /\ outcome = "ok"
                          /\ prompt # <<>>
                          /\ prompt[1].message_id = h[s].message_id
                       THEN <<>> ELSE prompt
          /\ h' = [h EXCEPT ![s] = Respond(h[s], outcome = "throw")]
    /\ UNCHANGED <<clock, CHAT_LANGUAGES>>

(* ----------------------------- specification --------------------------- *)

Next ==
    \/ Tick
    \/ \E s \in Slots : Finish(s)
    \/ \E s \in Slots : FetchMethodNotAllowed(s)
    \/ \E s \in Slots : FetchInvalidJson(s)
    \/ \E s \in Slots : FetchIgnored(s)
    \/ \E s \in Slots : FetchMutemeCommand(s)
    \/ \E s \in Slots : CmdGetChatLanguage(s)
    \/ \E s \in Slots : CmdSendAmbiguousPrompt(s)
    \/ \E s \in Slots : CmdSendPresetPrompt(s)
    \/ \E s \in Slots : CmdIsChatAdministrator(s)
    \/ \E s \in Slots : CmdSendIsAdmin(s)
    \/ \E s \in Slots : CmdRestrictChatMember(s)
    \/ \E s \in Slots : CmdSendConfirmation(s)
    \/ \E s \in Slots : FetchMutemeCallback(s)
    \/ \E s \in Slots : CbGetChatLanguageUnauthorized(s)
    \/ \E s \in Slots : CbAnswerUnauthorized(s)
    \/ \E s \in Slots : CbGetChatLanguage(s)
    \/ \E s \in Slots : CbIsChatAdministrator(s)
    \/ \E s \in Slots : CbAnswerIsAdmin(s)
    \/ \E s \in Slots : CbRestrictChatMember(s)
    \/ \E s \in Slots : CbAnswerApiFailed(s)
    \/ \E s \in Slots : CbDeleteMessage(s)
    \/ \E s \in Slots : CbSendConfirmation(s)
    \/ \E s \in Slots : FetchSetLangCommand(s)
    \/ \E s \in Slots : SlGetChatLanguage(s)
    \/ \E s \in Slots : SlIsChatAdministrator(s)
    \/ \E s \in Slots : SlSendNotAdmin(s)
    \/ \E s \in Slots : SlSendPrompt(s)
    \/ \E s \in Slots : FetchSetLangCallback(s)
    \/ \E s \in Slots : ScGetChatLanguage(s)
    \/ \E s \in Slots : ScIsChatAdministrator(s)
    \/ \E s \in Slots : ScSendNotAdmin(s)
    \/ \E s \in Slots : ScSendInvalidLanguage(s)
    \/ \E s \in Slots : ScSetChatLanguage(s)
    \/ \E s \in Slots : ScAnswerCallbackQuery(s)
    \/ \E s \in Slots : ScDeleteMessage(s)

Spec == Init /\ [][Next]_vars

\* The next step of the handler of slot s after the await it is at.
Continue(s) ==
    \/ CmdGetChatLanguage(s)
    \/ CmdSendAmbiguousPrompt(s)
    \/ CmdSendPresetPrompt(s)
    \/ CmdIsChatAdministrator(s)
    \/ CmdSendIsAdmin(s)
    \/ CmdRestrictChatMember(s)
    \/ CmdSendConfirmation(s)
    \/ CbGetChatLanguageUnauthorized(s)
    \/ CbAnswerUnauthorized(s)
    \/ CbGetChatLanguage(s)
    \/ CbIsChatAdministrator(s)
    \/ CbAnswerIsAdmin(s)
    \/ CbRestrictChatMember(s)
    \/ CbAnswerApiFailed(s)
    \/ CbDeleteMessage(s)
    \/ CbSendConfirmation(s)
    \/ SlGetChatLanguage(s)
    \/ SlIsChatAdministrator(s)
    \/ SlSendNotAdmin(s)
    \/ SlSendPrompt(s)
    \/ ScGetChatLanguage(s)
    \/ ScIsChatAdministrator(s)
    \/ ScSendNotAdmin(s)
    \/ ScSendInvalidLanguage(s)
    \/ ScSetChatLanguage(s)
    \/ ScAnswerCallbackQuery(s)
    \/ ScDeleteMessage(s)

\* Every await settles: the KV store and the Bot API answer or the request
\* is rejected, and the runtime resumes the handler.
LiveSpec == Spec /\ WF_vars(\E s \in Slots : Continue(s))

(* ----------------------- two requests of one user ---------------------- *)

\* The tokens of the two commands: an hour and three quarters of an hour.
PairTokens == { <<"1", "h">>, <<"4", "5", "m">> }

\* Two invocations of fetch can be in flight at once.
InitPair ==
    /\ clock = 0
    /\ CHAT_LANGUAGES = Null
    /\ prompt = <<>>
    /\ calls = <<>>
    /\ h = [s \in {1, 2} |-> Idle]

\* "/muteme <token>" of user 1, as message s of the chat
FetchMutemeCommandOfUser(s) ==
    /\ Free(s)
    /\ \E arg \in PairTokens :
          h' = [h EXCEPT ![s] =
                  [Idle EXCEPT !.pc = "getChatLanguage", !.kind = "muteme",
                               !.userId = 1, !.message_id = s,
                               !.requestedDuration = arg,
                               !.durationSeconds = DEFAULT_DURATION]]
    /\ prompt' = <<>>
    /\ UNCHANGED <<clock, CHAT_LANGUAGES, calls>>

NextPair ==
    \/ Tick
    \/ \E s \in Slots : FetchMutemeCommandOfUser(s)
    \/ \E s \in Slots : CmdGetChatLanguage(s)
    \/ \E s \in Slots : CmdIsChatAdministrator(s)
    \/ \E s \in Slots : CmdSendIsAdmin(s)
    \/ \E s \in Slots : CmdRestrictChatMember(s)
    \/ \E s \in Slots : CmdSendConfirmation(s)

SpecPair == InitPair /\ [][NextPair]_vars

(* ------------------ one click of a prompt, delivered twice -------------- *)

\* The prompt of presets sent to user 1 in reply to message 1
ClickedPrompt ==
    [message_id |-> 2, reply_to |-> 1, buttons |-> PresetButtons(1)]

\* The prompt is in the chat; two invocations of fetch can be in flight.
InitRedelivery ==
    /\ clock = 0
    /\ CHAT_LANGUAGES = Null
    /\ prompt = <<ClickedPrompt>>
    /\ calls = <<>>
    /\ h = [s \in {1, 2} |-> Idle]

\* Telegram delivers the click of user 1 on the 30 minutes button of the
\* prompt; the update carries the message as it was when clicked.
FetchClickDelivery(s) ==
    /\ Free(s)
    /\ h' = [h EXCEPT ![s] =
               Decode([Idle EXCEPT !.kind = "mutemeCallback",
                                   !.userId = 1,
                                   !.message_id = ClickedPrompt.message_id,
                                   !.data = ClickedPrompt.buttons[1]])]
    /\ UNCHANGED <<clock, CHAT_LANGUAGES, prompt, calls>>

NextRedelivery ==
    \/ Tick
    \/ \E s \in Slots : FetchClickDelivery(s)
    \/ \E s \in Slots : CbGetChatLanguage(s)
    \/ \E s \in Slots : CbIsChatAdministrator(s)
    \/ \E s \in Slots : CbAnswerIsAdmin(s)
    \/ \E s \in Slots : CbRestrictChatMember(s)
    \/ \E s \in Slots : CbAnswerApiFailed(s)
    \/ \E s \in Slots : CbDeleteMessage(s)
    \/ \E s \in Slots : CbSendConfirmation(s)

SpecRedelivery == InitRedelivery /\ [][NextRedelivery]_vars

(* ------------------- the parser and the lookup, called directly -------- *)

\* What the KV entry of a chat can hold: nothing, an enabled code, a code
\* that is not enabled, the empty string.
StoredValues == {Null, Some("en"), Some("uk"), Some("de"), Some("")}

\* One call of parseDuration(input) and one of getChatLanguage(chatId, env)
\* are pending, for any input, any stored value and either outcome of
\* the KV read.
InitCalls ==
    /\ clock = 0
    /\ CHAT_LANGUAGES \in StoredValues
    /\ prompt = <<>>
    /\ calls = <<>>
    /\ \E input \in Arguments, kv \in {"ok", "throw"} :
          h = [s \in {1} |-> [Idle EXCEPT !.pc = "call", !.kind = "call",
                                          !.requestedDuration = input, !.kv = kv]]

CallParseDuration(s) ==
    /\ h[s].pc = "call"
    /\ ~h[s].parseDurationCalled
    /\ h' = [h EXCEPT ![s].parseDurationCalled = TRUE,
                      ![s].parsedDuration = parseDuration(h[s].requestedDuration)]
    /\ UNCHANGED <<clock, CHAT_LANGUAGES, prompt, calls>>

CallGetChatLanguage(s) ==
    /\ h[s].pc = "call"
    /\ h[s].chatLanguageCode = ""
    /\ h' = [h EXCEPT ![s].chatLanguageCode = getChatLanguage(CHAT_LANGUAGES, h[s].kv)]
    /\ UNCHANGED <<clock, CHAT_LANGUAGES, prompt, calls>>

NextCalls ==
    \/ \E s \in Slots : CallParseDuration(s)
    \/ \E s \in Slots : CallGetChatLanguage(s)

SpecCalls == InitCalls /\ [][NextCalls]_vars

(* ------------------- the plural rules, called directly ----------------- *)

\* The language codes passed to the plural rules and the resolver: the two
\* supported ones and one that is not.
LanguageCodes == {"en", "uk", "de"}

\* One call of getPluralCategory(count, languageCode) is pending.
InitPlural ==
    /\ clock = 0
    /\ CHAT_LANGUAGES = Null
    /\ prompt = <<>>
    /\ calls = <<>>
    /\ \E count \in 0..MaxCount, languageCode \in LanguageCodes :
          h = [s \in {1} |-> [pc |-> "call", kind |-> "getPluralCategory",
                              count |-> count, languageCode |-> languageCode,
                              pluralCategory |-> ""]]

CallGetPluralCategory(s) ==
    /\ h[s].pc = "call"
    /\ h' = [h EXCEPT ![s].pc = "returned",
                      ![s].pluralCategory =
                          getPluralCategory(h[s].count, h[s].languageCode)]
    /\ UNCHANGED <<clock, CHAT_LANGUAGES, prompt, calls>>

NextPlural ==
    \/ \E s \in Slots : CallGetPluralCategory(s)

SpecPlural == InitPlural /\ [][NextPlural]_vars

(* ------------------- the buttons and the click, called directly -------- *)

\* Number::toString prints an integer in decimal notation while it is
\* below 10^21, that is up to 21 digits, and in exponent notation above.
MAX_DECIMAL_DIGITS == 21

RECURSIVE StripLeadingZeros(_)
StripLeadingZeros(digits) ==
    IF Len(digits) > 1 /\ digits[1] = "0" THEN StripLeadingZeros(Tail(digits))
    ELSE digits

\* `${numberValue}` for numberValue = parseInt(digits, 10), with digits
\* a number below 2^53 or a power of ten: "1e+21" for 10^21
NumberValueText(digits) ==
    LET d == StripLeadingZeros(digits)
    IN IF Len(d) <= MAX_DECIMAL_DIGITS THEN d
       ELSE <<d[1], "e", "+">> \o NumberToString(Len(d) - 1)

\* isNumberWithoutUnit(requestedDuration) as the text the template
\* literals print for it: <<>> for null
NumberWithoutUnitText(input) ==
    IF AllDigits(input) /\ \E i \in 1..Len(input) : input[i] # "0"
    THEN Some(NumberValueText(input))
    ELSE Null

\* callback_data of the keyboard sent for the bare number requestedDuration
AmbiguousButtonsText(userId, requestedDuration) ==
    LET numberValue == NumberWithoutUnitText(requestedDuration)[1]
    IN << MutemePrefix \o NumberToString(userId) \o <<":">> \o numberValue
                       \o <<":", "m">>,
          MutemePrefix \o NumberToString(userId) \o <<":">> \o numberValue
                       \o <<":", "h">> >>

\* 10^21, as typed
BigNumber == <<"1">> \o [i \in 1..MAX_DECIMAL_DIGITS |-> "0"]

\* Bare numbers: every digit string up to MaxLen, one with leading zeros,
\* one of 22 digits
NumberTokens ==
    UNION {[1..n -> {DigitChars[i] : i \in 1..10}] : n \in 1..MaxLen}
    \cup { <<"0", "0", "7">>, BigNumber }

\* handleMutemeCommand is about to send a prompt for "/muteme" or for
\* "/muteme <number>" of a user.
InitButtons ==
    /\ clock = 0
    /\ CHAT_LANGUAGES = Null
    /\ prompt = <<>>
    /\ calls = <<>>
    /\ \E userId \in Users,
          requestedDuration \in {<<>>} \cup {t \in NumberTokens :
                                                NumberWithoutUnitText(t) # Null} :
          h = [s \in {1} |-> [pc |-> "sendPrompt", kind |-> "muteme",
                              userId |-> userId,
                              requestedDuration |-> requestedDuration,
                              buttons |-> <<>>, data |-> <<>>,
                              routed |-> FALSE, match |-> Null]]

\* The keyboard of the prompt
CallSendPrompt(s) ==
    /\ h[s].pc = "sendPrompt"
    /\ h' = [h EXCEPT
               ![s].pc = "prompted",
               ![s].buttons =
                   IF h[s].requestedDuration = <<>>
                   THEN PresetButtons(h[s].userId)
                   ELSE AmbiguousButtonsText(h[s].userId, h[s].requestedDuration)]
    /\ UNCHANGED <<clock, CHAT_LANGUAGES, prompt, calls>>

\* A button is clicked: the routing of fetch and the match of
\* handleMutemeCallbackQuery on its callback_data
CallClick(s) ==
    /\ h[s].pc = "prompted"
    /\ \E i \in 1..Len(h[s].buttons) :
          LET data == h[s].buttons[i]
              routed == StartsWith(data, MutemePrefix)
          IN h' = [h EXCEPT
                     ![s].pc = "clicked",
                     ![s].data = data,
                     ![s].routed = routed,
                     ![s].match = IF routed THEN MutemeDataMatch(data) ELSE Null]
    /\ UNCHANGED <<clock, CHAT_LANGUAGES, prompt, calls>>

NextButtons ==
    \/ \E s \in Slots : CallSendPrompt(s)
    \/ \E s \in Slots : CallClick(s)

SpecButtons == InitButtons /\ [][NextButtons]_vars

(* --------------------- formatTranslation, called directly -------------- *)

\* A piece of a template: a letter or one of the placeholders {a}, {b}, {c}.
TemplatePieces ==
    { <<"x">>, Placeholder(<<"a">>), Placeholder(<<"b">>), Placeholder(<<"c">>) }

RECURSIVE Flatten(_)
Flatten(pieces) ==
    IF pieces = <<>> THEN <<>> ELSE Head(pieces) \o Flatten(Tail(pieces))

Templates ==
    {Flatten(p) : p \in UNION {[1..n -> TemplatePieces] : n \in 1..MaxPieces}}

\* The values a caller passes: a number, a text that is itself a
\* placeholder, a text with a dollar sign (requestedDuration is whatever
\* the user typed after /muteme).
ParamValues == { <<"1">>, Placeholder(<<"b">>), <<"$", "&">> }

ParamNames == { <<"a">>, <<"b">> }

\* params objects with none, one or both of the names, in either order
ParamLists ==
    {<<>>}
    \cup {<<Param(n, v)>> : n \in ParamNames, v \in ParamValues}
    \cup {<<Param(n[1], v[1]), Param(n[2], v[2])>> :
             n \in {m \in ParamNames \X ParamNames : m[1] # m[2]},
             v \in ParamValues \X ParamValues}

\* A catalog without any key, and one that holds a single key
EmptyCatalog == [k \in {} |-> <<>>]

Catalog(key, template) == [k \in {key} |-> template]

ResolveKey == <<"k">>

\* The entry of the Ukrainian catalog, unlike every English template
UkTemplate == <<"u">> \o Placeholder(<<"a">>)

\* One call formatTranslation(key, languageCode, params) is pending; each
\* of the two catalogs holds the key or does not.
InitResolve ==
    /\ clock = 0
    /\ CHAT_LANGUAGES = Null
    /\ prompt = <<>>
    /\ calls = <<>>
    /\ \E en \in {EmptyCatalog} \cup {Catalog(ResolveKey, t) : t \in Templates},
          uk \in {EmptyCatalog, Catalog(ResolveKey, UkTemplate)},
          languageCode \in LanguageCodes,
          params \in ParamLists :
          h = [s \in {1} |-> [pc |-> "call", kind |-> "formatTranslation",
                              translationsCache |-> [en |-> en, uk |-> uk],
                              key |-> ResolveKey, languageCode |-> languageCode,
                              params |-> params,
                              translation |-> Null, result |-> <<>>]]

CallFormatTranslation(s) ==
    /\ h[s].pc = "call"
    /\ h' = [h EXCEPT
               ![s].pc = "returned",
               ![s].translation =
                   getTranslation(h[s].translationsCache, h[s].key, h[s].languageCode),
               ![s].result =
                   formatTranslationText(h[s].translationsCache, h[s].key,
                                         h[s].languageCode, h[s].params)]
    /\ UNCHANGED <<clock, CHAT_LANGUAGES, prompt, calls>>

NextResolve ==
    \/ \E s \in Slots : CallFormatTranslation(s)

SpecResolve == InitResolve /\ [][NextResolve]_vars

(* ------------------ formatPluralTranslation, called directly ----------- *)

\* The keys a catalog can hold for the base key k
PluralKeys ==
    { PluralKey(ResolveKey, "one"), PluralKey(ResolveKey, "many"),
      PluralKey(ResolveKey, "other"), ResolveKey }

\* The entry of a key: a mark of the catalog, the key, the amount
PluralTemplate(mark, key) == <<mark>> \o key \o <<" ">> \o Placeholder(AMOUNT)

PluralCatalogs(mark) ==
    {[k \in keys |-> PluralTemplate(mark, k)] : keys \in SUBSET PluralKeys}

\* Counts of the categories one, few and many in Ukrainian
PluralCounts == {1, 2, 5}

\* params without an amount, and with an amount that is not the count
PluralParams == { <<>>, <<Param(AMOUNT, <<"7">>)>> }

\* One call formatPluralTranslation(baseKey, count, languageCode, params)
\* is pending; each catalog holds any subset of the keys.
InitResolvePlural ==
    /\ clock = 0
    /\ CHAT_LANGUAGES = Null
    /\ prompt = <<>>
    /\ calls = <<>>
    /\ \E en \in PluralCatalogs("E"), uk \in PluralCatalogs("U"),
          count \in PluralCounts, languageCode \in LanguageCodes,
          params \in PluralParams :
          h = [s \in {1} |-> [pc |-> "call", kind |-> "formatPluralTranslation",
                              translationsCache |-> [en |-> en, uk |-> uk],
                              baseKey |-> ResolveKey, count |-> count,
                              languageCode |-> languageCode, params |-> params,
                              translation |-> Null, result |-> <<>>]]

CallFormatPluralTranslation(s) ==
    /\ h[s].pc = "call"
    /\ h' = [h EXCEPT
               ![s].pc = "returned",
               ![s].translation =
                   PluralEntry(h[s].translationsCache, h[s].baseKey,
                               h[s].count, h[s].languageCode),
               ![s].result =
                   formatPluralTranslationText(h[s].translationsCache, h[s].baseKey,
                                               h[s].count, h[s].languageCode,
                                               h[s].params)]
    /\ UNCHANGED <<clock, CHAT_LANGUAGES, prompt, calls>>

NextResolvePlural ==
    \/ \E s \in Slots : CallFormatPluralTranslation(s)

SpecResolvePlural == InitResolvePlural /\ [][NextResolvePlural]_vars

(* ----------------------- formatDuration, called directly --------------- *)

\* "{amount} <word>"
Phrase(word) == Placeholder(AMOUNT) \o <<" ">> \o word

\* The duration entries of the English catalog: "{amount} minute",
\* "{amount} minutes", "{amount} hour", "{amount} hours", "{amount} day".
EnglishDurations ==
    (PluralKey(DURATION_MINUTE, "one") :> Phrase(<<"m", "i", "n", "u", "t", "e">>))
    @@ (PluralKey(DURATION_MINUTE, "other") :> Phrase(<<"m", "i", "n", "u", "t", "e", "s">>))
    @@ (PluralKey(DURATION_HOUR, "one") :> Phrase(<<"h", "o", "u", "r">>))
    @@ (PluralKey(DURATION_HOUR, "other") :> Phrase(<<"h", "o", "u", "r", "s">>))
    @@ (PluralKey(DURATION_DAY, "one") :> Phrase(<<"d", "a", "y">>))

\* The keys every catalog has to hold, and the optional forms of the
\* minute and the hour
RequiredDurationKeys == DOMAIN EnglishDurations

OptionalDurationKeys ==
    { PluralKey(DURATION_MINUTE, "few"), PluralKey(DURATION_MINUTE, "many"),
      PluralKey(DURATION_HOUR, "few"), PluralKey(DURATION_HOUR, "many") }

\* The duration entries of the Ukrainian catalog, each word stood for by
\* its key; the optional forms are there or not.
UkrainianDurations(keys) == [k \in keys |-> Phrase(k)]

UkrainianCatalogs ==
    { UkrainianDurations(RequiredDurationKeys),
      UkrainianDurations(RequiredDurationKeys \cup OptionalDurationKeys) }

\* Whole minutes, and the last second before the next one
FormatSeconds == {60 * m + r : m \in 0..MaxMinutes, r \in {0, 59}}

FormatFrame(kind, uk, languageCode) ==
    [pc |-> "call", kind |-> kind,
     translationsCache |-> [en |-> EnglishDurations, uk |-> uk],
     languageCode |-> languageCode,
     durationSeconds |-> 0, requestedDuration |-> <<>>, parsedDuration |-> Null,
     result |-> <<>>]

\* One call formatDuration(durationSeconds, languageCode) is pending, or
\* one call of parseDuration whose result goes to formatDuration.
InitFormat ==
    /\ clock = 0
    /\ CHAT_LANGUAGES = Null
    /\ prompt = <<>>
    /\ calls = <<>>
    /\ \E uk \in UkrainianCatalogs, languageCode \in LanguageCodes :
          \/ \E durationSeconds \in FormatSeconds :
                h = [s \in {1} |->
                       [FormatFrame("formatDuration", uk, languageCode)
                           EXCEPT !.durationSeconds = durationSeconds]]
          \/ \E input \in Arguments :
                h = [s \in {1} |->
                       [FormatFrame("parseDuration", uk, languageCode)
                           EXCEPT !.requestedDuration = input]]

CallFormatDuration(s) ==
    /\ h[s].pc = "call"
    /\ h[s].kind = "formatDuration"
    /\ h' = [h EXCEPT
               ![s].pc = "returned",
               ![s].result = formatDurationText(h[s].translationsCache,
                                                h[s].durationSeconds,
                                                h[s].languageCode)]
    /\ UNCHANGED <<clock, CHAT_LANGUAGES, prompt, calls>>

\* parseDuration(input), and formatDuration of what it returns unless
\* that is null
CallParseThenFormat(s) ==
    /\ h[s].pc = "call"
    /\ h[s].kind = "parseDuration"
    /\ LET parsedDuration == parseDuration(h[s].requestedDuration)
       IN h' = [h EXCEPT
                  ![s].pc = IF parsedDuration = Null THEN "rejected" ELSE "returned",
                  ![s].parsedDuration = parsedDuration,
                  ![s].durationSeconds =
                      IF parsedDuration = Null THEN 0 ELSE parsedDuration[1],
                  ![s].result =
                      IF parsedDuration = Null THEN <<>>
                      ELSE formatDurationText(h[s].translationsCache,
                                              parsedDuration[1], h[s].languageCode)]
    /\ UNCHANGED <<clock, CHAT_LANGUAGES, prompt, calls>>

NextFormat ==
    \/ \E s \in Slots : CallFormatDuration(s)
    \/ \E s \in Slots : CallParseThenFormat(s)

SpecFormat == InitFormat /\ [][NextFormat]_vars

TypeOK ==
    /\ clock \in 0..MaxClock
    /\ \A s \in Slots : h[s].status \in {0, 200, 405, 500}

(* ------------------------- vocabulary of the claims -------------------- *)

CallsOf(s) == SelectSeq(calls, LAMBDA c : c.slot = s)

RestrictsOf(s) == {i \in 1..Len(calls) :
                      calls[i].slot = s /\ calls[i].api = "restrictChatMember"}

\* Seconds of one unit, by either letter case.
UnitSeconds(u) ==
    CASE u \in {"m", "M"} -> 60
      [] u \in {"h", "H"} -> 3600
      [] u \in {"d", "D"} -> 86400

\* N followed by m, h or d, N >= 1.
IsUnitToken(t) ==
    /\ Len(t) >= 2
    /\ \A i \in 1..(Len(t) - 1) : IsDigit(t[i])
    /\ t[Len(t)] \in {"m", "M", "h", "H", "d", "D"}
    /\ ParseInt(SubSeq(t, 1, Len(t) - 1)) >= 1

RequestedSeconds(t) ==
    ParseInt(SubSeq(t, 1, Len(t) - 1)) * UnitSeconds(t[Len(t)])

\* Only digits, strictly positive.
IsBareNumber(t) ==
    /\ Len(t) >= 1
    /\ \A i \in 1..Len(t) : IsDigit(t[i])
    /\ ParseInt(t) >= 1

\* The text muteme:<user>:<amount>:<unit>.
Payload(user, amount, unit) ==
    <<"m", "u", "t", "e", "m", "e", ":">> \o NumberToString(user)
        \o <<":">> \o NumberToString(amount) \o <<":">> \o <<unit>>

HasLine(text, key) == \E j \in 1..Len(text) : text[j].key = key

IsConfirmation(c) == c.api = "sendMessage" /\ HasLine(c.text, "muteme.success")

IsPrompt(c) == c.api = "sendMessage" /\ c.buttons # <<>>

\* The click comes from the user the payload names.
ClickByAuthor(f) ==
    /\ f.kind = "mutemeCallback"
    /\ f.hasMessage
    /\ MutemeDataMatch(f.data) # Null
    /\ ParseInt(MutemeDataMatch(f.data)[1].user) = f.userId

ClickByOther(f) ==
    /\ f.kind = "mutemeCallback"
    /\ f.hasMessage
    /\ MutemeDataMatch(f.data) # Null
    /\ ParseInt(MutemeDataMatch(f.data)[1].user) # f.userId

Classified(f) == f.kind = "muteme" /\ f.pc # "getChatLanguage"

(* -------------------------------- claims ------------------------------- *)

\* C1: every restrictChatMember call of the command handler and of the
\* click handler (clicks on buttons the bot sent) has until_date - now,
\* now being the clock value the handler read, in 1..86400.
C1_RestrictWithinOneDay ==
    \A i \in 1..Len(calls) :
       calls[i].api = "restrictChatMember"
          => (calls[i].until_date - calls[i].now) \in 1..86400

C1_Witness ==
    \E s \in Slots : \E i \in RestrictsOf(s) :
       /\ h[s].kind = "mutemeCallback"
       /\ calls[i].now > 0
       /\ calls[i].until_date - calls[i].now = 86400

\* C2: for every token N{m,h,d} in either letter case with N >= 1,
\* parseDuration returns min(N * unitSeconds, 86400).
C2_ParseDurationCapped ==
    \A s \in Slots :
       (h[s].parseDurationCalled /\ IsUnitToken(h[s].requestedDuration))
          => h[s].parsedDuration =
                <<Min(RequestedSeconds(h[s].requestedDuration), 86400)>>

C2_Witness ==
    \E s \in Slots :
       /\ h[s].parseDurationCalled
       /\ h[s].requestedDuration = <<"1", "4", "4", "1", "M">>
       /\ h[s].parsedDuration = <<86400>>

\* C3: for a /muteme command with a unit token N{m,h,d} from a non-admin
\* whose restriction succeeded, the capped flag is set and the confirmation
\* carries the duration-capped notice exactly when N * unitSeconds > 86400.
C3_CappedNoticeIffOverCap ==
    \A s \in Slots : \A i \in 1..Len(calls) :
       (/\ h[s].kind = "muteme"
        /\ IsUnitToken(h[s].requestedDuration)
        /\ calls[i].slot = s
        /\ IsConfirmation(calls[i]))
          => /\ h[s].requestedRudationIsCapped
                   <=> (RequestedSeconds(h[s].requestedDuration) > 86400)
             /\ HasLine(calls[i].text, "muteme.duration_capped")
                   <=> (RequestedSeconds(h[s].requestedDuration) > 86400)

\* C4: a click by a user other than the one the payload names only gets
\* the unauthorized answer: one answerCallbackQuery, no restrictChatMember,
\* no deleteMessage, no sendMessage.
C4_UnauthorizedClickOnlyAnswered ==
    \A s \in Slots :
       ClickByOther(h[s])
          => /\ Len(CallsOf(s)) <= 1
             /\ \A i \in 1..Len(CallsOf(s)) :
                   /\ CallsOf(s)[i].api = "answerCallbackQuery"
                   /\ CallsOf(s)[i].text[1].key = "muteme.error.unauthorized"
             /\ h[s].pc = "done" => Len(CallsOf(s)) = 1

C4_Witness ==
    \E s \in Slots :
       /\ ClickByOther(h[s])
       /\ h[s].pc = "done"
       /\ h[s].status = 200
       /\ Len(CallsOf(s)) = 1
       /\ CallsOf(s)[1].outcome = "ok"

\* C5: a click by the payload's user, a non-admin, restricts that user for
\* min(A * unitSeconds(u), 86400) seconds, then deletes the prompt, then
\* sends the confirmation, in that order.
C5_AuthorClickRestrictsDeletesConfirms ==
    \A s \in Slots :
       (ClickByAuthor(h[s]) /\ h[s].lookup \notin ADMIN_ROLES)
          => LET cs == CallsOf(s)
                 m == MutemeDataMatch(h[s].data)[1]
             IN /\ Len(cs) >= 1 =>
                      /\ cs[1].api = "restrictChatMember"
                      /\ cs[1].user_id = h[s].userId
                      /\ cs[1].until_date - cs[1].now
                            = Min(ParseInt(m.amount) * UnitSeconds(m.unit), 86400)
                /\ (Len(cs) >= 2 /\ cs[1].outcome = "ok") =>
                      /\ cs[2].api = "deleteMessage"
                      /\ cs[2].message_id = h[s].message_id
                /\ (Len(cs) >= 3 /\ cs[1].outcome = "ok") =>
                      /\ IsConfirmation(cs[3])
                      /\ Len(cs) = 3
                /\ (h[s].pc = "done" /\ h[s].status = 200 /\ cs[1].outcome = "ok")
                      => Len(cs) = 3

C5_Witness ==
    \E s \in Slots :
       /\ ClickByAuthor(h[s])
       /\ h[s].data = Payload(h[s].userId, 25, "h")
       /\ h[s].pc = "done"
       /\ h[s].status = 200
       /\ Len(CallsOf(s)) = 3
       /\ CallsOf(s)[1].outcome = "ok"
       /\ CallsOf(s)[1].until_date - CallsOf(s)[1].now = 86400
       /\ CallsOf(s)[2].api = "deleteMessage"
       /\ IsConfirmation(CallsOf(s)[3])

\* C6: when getChatMember reports the requester of a mute (command or
\* click) as administrator or creator, neither handler issues
\* restrictChatMember; the only call is the is-admin refusal.
C6_AdminNeverRestricted ==
    \A s \in Slots :
       (/\ h[s].kind \in {"muteme", "mutemeCallback"}
        /\ h[s].lookup \in {"administrator", "creator"})
          => /\ RestrictsOf(s) = {}
             /\ Len(CallsOf(s)) <= 1
             /\ \A i \in 1..Len(CallsOf(s)) :
                   /\ CallsOf(s)[i].text[1].key = "muteme.error.is_admin"
                   /\ CallsOf(s)[i].api = IF h[s].kind = "muteme" THEN "sendMessage"
                                          ELSE "answerCallbackQuery"
             /\ h[s].pc = "done" => Len(CallsOf(s)) = 1

C6_Witness ==
    \E s \in Slots :
       /\ h[s].lookup = "creator"
       /\ h[s].kind = "muteme"
       /\ h[s].requestedDurationIsInvalid
       /\ h[s].pc = "done"
       /\ Len(CallsOf(s)) = 1
       /\ CallsOf(s)[1].text[1].key = "muteme.error.is_admin"

C10_InvalidTokenDefaults ==
    \A s \in Slots :
       (/\ Classified(h[s])
        /\ h[s].requestedDuration # <<>>
        /\ ~IsBareNumber(h[s].requestedDuration)
        /\ ~IsUnitToken(h[s].requestedDuration))
          => LET cs == CallsOf(s)
             IN /\ \A i \in 1..Len(cs) : ~IsPrompt(cs[i])
                /\ \A i \in RestrictsOf(s) :
                      calls[i].until_date - calls[i].now = 1800
                /\ \A i \in 1..Len(cs) :
                      IsConfirmation(cs[i])
                         => /\ Len(cs[i].text) = 2
                            /\ cs[i].text[2].key = "muteme.invalid_duration"
                            /\ cs[i].text[2].token = h[s].requestedDuration
                /\ (/\ h[s].pc = "done"
                    /\ h[s].status = 200
                    /\ h[s].lookup \notin ADMIN_ROLES)
                      => /\ Len(cs) = 2
                         /\ cs[1].api = "restrictChatMember"
                         /\ cs[1].outcome = "ok"
                         /\ IsConfirmation(cs[2])

C10_Witness ==
    \E s \in Slots :
       /\ Classified(h[s])
       /\ h[s].requestedDuration = <<"0", "m">>
       /\ h[s].pc = "done"
       /\ h[s].status = 200
       /\ Len(CallsOf(s)) = 2
       /\ CallsOf(s)[1].until_date - CallsOf(s)[1].now = 1800
       /\ HasLine(CallsOf(s)[2].text, "muteme.invalid_duration")

\* C11: parseDuration returns null for every token that is not digits
\* followed by one of m, h, d (either case), and for every such token
\* whose magnitude is zero.
C11_ParseDurationRejects ==
    \A s \in Slots :
       (h[s].parseDurationCalled /\ ~IsUnitToken(h[s].requestedDuration))
          => h[s].parsedDuration = Null

C11_Witness ==
    \E s \in Slots :
       /\ h[s].kind = "call"
       /\ h[s].parseDurationCalled
       /\ h[s].requestedDuration = <<"0", "0", "m">>
       /\ h[s].parsedDuration = Null

\* C12: no execution of handleMutemeCommand sets both the capped flag and
\* the invalid flag, and no confirmation carries both the capped notice
\* and the invalid notice.
C12_CappedAndInvalidExclusive ==
    \A s \in Slots :
       h[s].kind = "muteme"
          => /\ ~(h[s].requestedDurationIsInvalid /\ h[s].requestedRudationIsCapped)
             /\ \A i \in 1..Len(CallsOf(s)) :
                   ~(/\ HasLine(CallsOf(s)[i].text, "muteme.invalid_duration")
                     /\ HasLine(CallsOf(s)[i].text, "muteme.duration_capped"))

C12_Witness ==
    \E s \in Slots :
       /\ h[s].kind = "muteme"
       /\ h[s].requestedDuration = <<"3", "0", "s">>
       /\ h[s].requestedDurationIsInvalid
       /\ ~h[s].requestedRudationIsCapped
       /\ Len(CallsOf(s)) = 2
       /\ HasLine(CallsOf(s)[2].text, "muteme.invalid_duration")
       /\ ~HasLine(CallsOf(s)[2].text, "muteme.duration_capped")

\* C13: on the /muteme command path every confirmation is preceded by a
\* restrictChatMember call for the requester with until_date = now +
\* duration, and that call returned success.
C13_RestrictBeforeConfirmation ==
    \A s \in Slots :
       h[s].kind = "muteme"
          => LET cs == CallsOf(s)
             IN \A i \in 1..Len(cs) :
                   IsConfirmation(cs[i])
                      => \E j \in 1..(i - 1) :
                            /\ cs[j].api = "restrictChatMember"
                            /\ cs[j].outcome = "ok"
                            /\ cs[j].user_id = h[s].userId
                            /\ cs[j].until_date = cs[j].now + h[s].durationSeconds

C13_Witness ==
    \E s \in Slots :
       /\ h[s].kind = "muteme"
       /\ h[s].requestedDuration = <<"4", "5", "m">>
       /\ h[s].lookup = "member"
       /\ h[s].pc = "done"
       /\ h[s].status = 200
       /\ Len(CallsOf(s)) = 2
       /\ CallsOf(s)[1].api = "restrictChatMember"
       /\ CallsOf(s)[1].until_date = CallsOf(s)[1].now + 2700
       /\ IsConfirmation(CallsOf(s)[2])
       /\ CallsOf(s)[2].outcome = "ok"

\* C14: when a restrictChatMember call returns a response that is not
\* success, on the command path and on the click path alike, the handler
\* throws: it makes no further call, the webhook answers 500 and no success
\* confirmation is sent.
C14_RestrictFailureThrows ==
    \A s \in Slots : \A i \in 1..Len(CallsOf(s)) :
       (CallsOf(s)[i].api = "restrictChatMember" /\ CallsOf(s)[i].outcome = "notok")
          => /\ i = Len(CallsOf(s))
             /\ h[s].pc = "done"
             /\ h[s].status = 500

\* C15: once restrictChatMember has succeeded, a response that is not
\* success from the confirmation sendMessage or from the prompt
\* deleteMessage is only logged: the handler does not throw, the webhook
\* answers 200, the restriction is not touched again, and on the click
\* path the confirmation is still sent after a failed deletion.
C15_LaterFailuresOnlyLogged ==
    \A s \in Slots :
       (/\ h[s].kind \in {"muteme", "mutemeCallback"}
        /\ Len(CallsOf(s)) >= 1
        /\ CallsOf(s)[1].api = "restrictChatMember"
        /\ CallsOf(s)[1].outcome = "ok")
          => LET cs == CallsOf(s)
             IN /\ \A i \in 2..Len(cs) : cs[i].api # "restrictChatMember"
                /\ \A i \in 2..Len(cs) :
                      (IsConfirmation(cs[i]) /\ cs[i].outcome = "notok")
                         => /\ i = Len(cs)
                            /\ h[s].pc = "done"
                            /\ h[s].status = 200
                /\ \A i \in 2..Len(cs) :
                      (cs[i].api = "deleteMessage" /\ cs[i].outcome = "notok")
                         => /\ h[s].pc \in {"cbSendConfirmation", "done"}
                            /\ h[s].pc = "done"
                                  => /\ Len(cs) = i + 1
                                     /\ IsConfirmation(cs[i + 1])
                                     /\ cs[i + 1].outcome # "throw"
                                           => h[s].status = 200

C15_Witness ==
    \E s \in Slots :
       /\ h[s].kind = "mutemeCallback"
       /\ h[s].pc = "done"
       /\ h[s].status = 200
       /\ Len(CallsOf(s)) = 3
       /\ CallsOf(s)[1].api = "restrictChatMember"
       /\ CallsOf(s)[1].outcome = "ok"
       /\ CallsOf(s)[2].api = "deleteMessage"
       /\ CallsOf(s)[2].outcome = "notok"
       /\ IsConfirmation(CallsOf(s)[3])
       /\ CallsOf(s)[3].outcome = "notok"

\* Something was thrown out of the handler of slot s, as the calls show:
\* the body was no JSON, the last call was rejected, the command's
\* restrict call was refused, or the KV put failed (an administrator's
\* valid selection that made no call).
Threw(s) ==
    LET cs == CallsOf(s) IN
    \/ h[s].kind = "invalidJson"
    \/ Len(cs) > 0 /\ cs[Len(cs)].outcome = "throw"
    \/ /\ h[s].kind = "muteme"
       /\ Len(cs) > 0
       /\ cs[Len(cs)].api = "restrictChatMember"
       /\ cs[Len(cs)].outcome = "notok"
    \/ /\ h[s].kind = "setlangCallback"
       /\ Len(cs) = 0
       /\ h[s].lookup \in ADMIN_ROLES
       /\ h[s].messageHasText
       /\ h[s].languageCode \in ENABLED_LANGUAGES

StatusMatchesOutcome ==
    \A s \in Slots :
       /\ h[s].pc # "done" => h[s].status = 0
       /\ h[s].pc = "done" =>
             /\ h[s].kind = "notPost" => h[s].status = 405 /\ CallsOf(s) = <<>>
             /\ (h[s].kind # "notPost" /\ Threw(s)) => h[s].status = 500
             /\ (h[s].kind # "notPost" /\ ~Threw(s)) => h[s].status = 200

\* C16: every webhook request eventually gets exactly one response status:
\* 405 for a request that is not POST (no handler runs, no call is made),
\* 500 when something is thrown out of the handler (a body that is not
\* JSON included), 200 otherwise; the response, once given, does not change.
C16_EveryRequestAnswered ==
    /\ []StatusMatchesOutcome
    /\ [][\A s \in Slots : h[s].pc = "done" => (h'[s] = h[s] \/ h'[s].pc = "idle")]_vars
    /\ (\E s \in Slots : h[s].pc \notin {"idle", "done"})
          ~> (\E s \in Slots : h[s].pc = "done")

C16_Witness ==
    \E s \in Slots :
       /\ h[s].kind = "setlangCallback"
       /\ h[s].pc = "done"
       /\ h[s].status = 500
       /\ Len(CallsOf(s)) = 0

\* The chat's current language: the stored code when the store was read
\* and holds one of en, uk; en otherwise.
CurrentLanguage(f) ==
    IF f.kv = "ok" /\ CHAT_LANGUAGES \in {<<"en">>, <<"uk">>}
    THEN CHAT_LANGUAGES[1] ELSE "en"

\* The role lookup of the request has not found an administrator or creator.
NotAdmin(f) == f.lookup \in {"member", "noresult", "throw"}

\* C17: a /setlang command from a user who is not administrator or creator
\* gets one refusal message in the chat's current language and no message
\* with buttons, and the stored language does not change.
C17_SetLangRefusedForNonAdmin ==
    /\ [](\A s \in Slots :
            (h[s].kind = "setlang" /\ NotAdmin(h[s]))
               => LET cs == CallsOf(s)
                  IN /\ Len(cs) <= 1
                     /\ \A i \in 1..Len(cs) :
                           /\ cs[i].api = "sendMessage"
                           /\ cs[i].buttons = <<>>
                           /\ Len(cs[i].text) = 1
                           /\ cs[i].text[1].key = "language.set.error.not_admin"
                           /\ cs[i].text[1].lang = CurrentLanguage(h[s])
                     /\ h[s].pc = "done" => Len(cs) = 1)
    /\ [][\A s \in Slots :
            (h[s].kind = "setlang" /\ h[s].lookup \notin ADMIN_ROLES)
               => CHAT_LANGUAGES' = CHAT_LANGUAGES]_vars

C17_Witness ==
    \E s \in Slots :
       /\ h[s].kind = "setlang"
       /\ h[s].lookup = "member"
       /\ h[s].kv = "ok"
       /\ CHAT_LANGUAGES = <<"uk">>
       /\ h[s].pc = "done"
       /\ h[s].status = 200
       /\ Len(CallsOf(s)) = 1
       /\ CallsOf(s)[1].text[1].key = "language.set.error.not_admin"
       /\ CallsOf(s)[1].text[1].lang = "uk"

\* An administrator's click on the button of an enabled language, on a
\* prompt message that is accessible.
AdminSelects(f) ==
    /\ f.kind = "setlangCallback"
    /\ f.lookup \in ADMIN_ROLES
    /\ f.messageHasText
    /\ f.languageCode \in {"en", "uk"}

\* C18: a /setlang command from an administrator sends one prompt with
\* exactly one button per enabled language, the code as payload.  When an
\* administrator selects language L, the store holds L before the
\* confirmation is sent, the confirmation is resolved in L, and the prompt
\* is deleted after the confirmation.
C18_AdminSetsLanguage ==
    \A s \in Slots :
       LET cs == CallsOf(s) IN
       /\ (h[s].kind = "setlang" /\ h[s].lookup \in ADMIN_ROLES)
             => /\ Len(cs) <= 1
                /\ \A i \in 1..Len(cs) :
                      /\ cs[i].api = "sendMessage"
                      /\ cs[i].text[1].key = "language.set.prompt"
                      /\ Len(cs[i].buttons) = 2
                      /\ {cs[i].buttons[b] : b \in 1..2} = {<<"e", "n">>, <<"u", "k">>}
                /\ h[s].pc = "done" => Len(cs) = 1
       /\ AdminSelects(h[s])
             => /\ Len(cs) <= 2
                /\ Len(cs) >= 1 =>
                      /\ CHAT_LANGUAGES = <<h[s].languageCode>>
                      /\ cs[1].api = "answerCallbackQuery"
                      /\ cs[1].text[1].key = "language.set.success"
                      /\ cs[1].text[1].lang = h[s].languageCode
                /\ Len(cs) = 2 =>
                      /\ cs[2].api = "deleteMessage"
                      /\ cs[2].message_id = h[s].message_id
                /\ (h[s].pc = "done" /\ h[s].status = 200) => Len(cs) = 2

C18_Witness ==
    \E s \in Slots :
       /\ AdminSelects(h[s])
       /\ h[s].kv = "ok"
       /\ h[s].chatLanguageCode = "en"
       /\ h[s].languageCode = "uk"
       /\ h[s].pc = "done"
       /\ h[s].status = 200
       /\ CHAT_LANGUAGES = <<"uk">>
       /\ Len(CallsOf(s)) = 2
       /\ CallsOf(s)[1].text[1].lang = "uk"
       /\ CallsOf(s)[2].api = "deleteMessage"
       /\ CallsOf(s)[2].outcome = "ok"
       /\ prompt = <<>>

\* C19: the stored language changes only by a step of
\* handleSetLangCallbackQuery for a click of an administrator or creator
\* whose payload is an enabled code, and it changes to that code; a click
\* of anyone else or with another payload leaves the store as it is, and
\* the store never holds a value that is not an enabled code.
C19_StoreWrittenOnlyByAdminSelection ==
    /\ [](CHAT_LANGUAGES = <<>> \/ CHAT_LANGUAGES \in {<<"en">>, <<"uk">>})
    /\ [][CHAT_LANGUAGES' # CHAT_LANGUAGES
            => \E s \in Slots :
                  /\ h[s].kind = "setlangCallback"
                  /\ h[s].lookup \in {"administrator", "creator"}
                  /\ h[s].languageCode \in {"en", "uk"}
                  /\ CHAT_LANGUAGES' = <<h[s].languageCode>>]_vars
    /\ [][\A s \in Slots :
            (/\ h[s].kind = "setlangCallback"
             /\ \/ h[s].lookup \in {"member", "noresult", "throw"}
                \/ h[s].languageCode \notin {"en", "uk"})
               => CHAT_LANGUAGES' = CHAT_LANGUAGES]_vars

C19_Witness ==
    \E s \in Slots :
       /\ h[s].kind = "setlangCallback"
       /\ h[s].lookup = "creator"
       /\ h[s].languageCode = "uk"
       /\ h[s].chatLanguageCode = "en"
       /\ h[s].pc = "scAnswerCallbackQuery"
       /\ CHAT_LANGUAGES = <<"uk">>

\* C20: getChatLanguage returns en when the store holds nothing for the
\* chat, when the read throws, and when the stored value is not an enabled
\* code; otherwise it returns the stored code.  It returns in every case.
C20_GetChatLanguageDefaults ==
    \A s \in Slots :
       (h[s].kind = "call" /\ h[s].chatLanguageCode # "")
          => /\ (h[s].kv = "throw" \/ CHAT_LANGUAGES \notin {<<"en">>, <<"uk">>})
                   => h[s].chatLanguageCode = "en"
             /\ (h[s].kv = "ok" /\ CHAT_LANGUAGES \in {<<"en">>, <<"uk">>})
                   => h[s].chatLanguageCode = CHAT_LANGUAGES[1]

C20_Witness ==
    \E s \in Slots :
       /\ h[s].kind = "call"
       /\ h[s].kv = "ok"
       /\ CHAT_LANGUAGES = <<"de">>
       /\ h[s].chatLanguageCode = "en"

(* ================================ C21 ================================== *)

\* The restrictChatMember calls of slot s that Telegram accepted.
AcceptedRestrictsOf(s) == {i \in RestrictsOf(s) : calls[i].outcome = "ok"}

\* The expiry Telegram holds for a user: the until_date of the latest
\* restriction it accepted for that user, <<>> when there is none.
RestrictedUntil(userId) ==
    LET accepted == {i \in 1..Len(calls) :
                        /\ calls[i].api = "restrictChatMember"
                        /\ calls[i].outcome = "ok"
                        /\ calls[i].user_id = userId}
    IN IF accepted = {} THEN Null
       ELSE Some(calls[CHOOSE i \in accepted : \A j \in accepted : j <= i].until_date)

\* Both requests of the user have been answered and both restricted them.
BothRestricted ==
    /\ Slots = {1, 2}
    /\ \A s \in Slots : h[s].pc = "done" /\ AcceptedRestrictsOf(s) # {}

\* C21: two /muteme requests of the same non-admin user are handled
\* independently: a request that is waiting at an await can always take
\* its next step whatever the other request is doing, and a step of one
\* request leaves the locals of the other untouched; once both have
\* completed, the expiry Telegram holds for the user is that of the
\* restriction that reached it later (the time that request read plus its
\* own duration), whether or not the earlier one ran longer.
C21_IndependentLaterRestrictionWins ==
    /\ [](\A s \in Slots : h[s].pc \notin {"idle", "done"} => ENABLED Continue(s))
    /\ [][\A s \in Slots :
            h'[s] # h[s] => \A t \in Slots \ {s} : h'[t] = h[t]]_vars
    /\ [](BothRestricted =>
            \A s \in Slots : \A t \in Slots \ {s} :
               (\A i \in AcceptedRestrictsOf(s) : \A j \in AcceptedRestrictsOf(t) : i < j)
                  => RestrictedUntil(h[t].userId)
                        = Some(h[t].now + RequestedSeconds(h[t].requestedDuration)))

\* Both requests completed, the second command was the first to restrict
\* and asked for the longer time: the hour is overwritten by the 45
\* minutes of the first command, whose restriction arrived later.
C21_Witness ==
    /\ BothRestricted
    /\ h[1].requestedDuration = <<"4", "5", "m">>
    /\ h[2].requestedDuration = <<"1", "h">>
    /\ h[1].lookup = "member" /\ h[2].lookup = "member"
    /\ \A i \in AcceptedRestrictsOf(2) : \A j \in AcceptedRestrictsOf(1) : i < j
    /\ h[1].now < h[2].now
    /\ RestrictedUntil(1) = Some(h[1].now + 2700)
    /\ h[2].untilDate > h[1].untilDate

(* ================================ C22 ================================== *)

\* C22: getPluralCategory agrees with the rule table for every count >= 0.
\* English and every code other than 'uk': one for 1, other otherwise.
\* Ukrainian, with m10 = count % 10 and m100 = count % 100: one when
\* m10 = 1 and m100 # 11; else few when m10 is 2..4 and m100 is below 10 or
\* at least 20; else many when m10 is 0 or 5..9 or m100 is 11..14; else
\* other. In particular (1, en) is one, (0, en) is other, (21, uk) is one,
\* (11, uk) is many and (3, uk) is few.
C22_PluralCategoryTable ==
    \A s \in Slots :
       h[s].pc = "returned" =>
          LET n == h[s].count
              lang == h[s].languageCode
              r == h[s].pluralCategory
              m10 == n % 10
              m100 == n % 100
          IN /\ lang # "uk" => (r = "one" <=> n = 1) /\ (r = "other" <=> n # 1)
             /\ lang = "uk" =>
                   /\ r = "one" <=> (m10 = 1 /\ m100 # 11)
                   /\ r = "few" <=> (m10 \in 2..4 /\ m100 \notin 10..19)
                   /\ r = "many" <=> (m10 \in {0, 5, 6, 7, 8, 9} \/ m100 \in 11..14)
                   /\ r # "other"
             /\ (n = 1 /\ lang = "en") => r = "one"
             /\ (n = 0 /\ lang = "en") => r = "other"
             /\ (n = 21 /\ lang = "uk") => r = "one"
             /\ (n = 11 /\ lang = "uk") => r = "many"
             /\ (n = 3 /\ lang = "uk") => r = "few"

\* The category of 111 in Ukrainian has been computed: many, by the
\* exception for 11 that 21 and 121 do not fall under.
C22_Witness ==
    \E s \in Slots :
       /\ h[s].pc = "returned"
       /\ h[s].count = 111
       /\ h[s].languageCode = "uk"
       /\ h[s].pluralCategory = "many"

(* ================================ C23 ================================== *)

\* The key is in the catalog of the language.
Holds(f, languageCode) ==
    /\ languageCode \in DOMAIN f.translationsCache
    /\ f.key \in DOMAIN f.translationsCache[languageCode]

\* C23: formatTranslation never returns an empty string for a missing
\* key: when the key is in neither the catalog of the requested language
\* nor the default catalog, the raw key itself is returned.
C23_MissingKeyReturnsKey ==
    \A s \in Slots :
       (/\ h[s].pc = "returned"
        /\ h[s].kind = "formatTranslation"
        /\ ~Holds(h[s], h[s].languageCode)
        /\ ~Holds(h[s], DEFAULT_LANGUAGE))
          => h[s].result # <<>> /\ h[s].result = h[s].key

(* ================================ C24 ================================== *)

\* C24: for a supported language, formatTranslation uses the entry of the
\* requested catalog whenever that catalog holds the key, never the
\* default one; when the requested catalog lacks the key and the default
\* ('en') catalog holds it, the default entry is used. The text returned
\* is that entry with the parameters substituted.
C24_RequestedCatalogThenDefault ==
    \A s \in Slots :
       (/\ h[s].pc = "returned"
        /\ h[s].kind = "formatTranslation"
        /\ h[s].languageCode \in {"en", "uk"})
          => LET f == h[s]
                 requested == f.translationsCache[f.languageCode]
                 default == f.translationsCache[DEFAULT_LANGUAGE]
             IN /\ Holds(f, f.languageCode)
                      => /\ f.translation = Some(requested[f.key])
                         /\ f.result = ReplaceParams(requested[f.key], f.params)
                /\ (~Holds(f, f.languageCode) /\ Holds(f, DEFAULT_LANGUAGE))
                      => /\ f.translation = Some(default[f.key])
                         /\ f.result = ReplaceParams(default[f.key], f.params)

\* A Ukrainian request for a key that only the English catalog holds has
\* been answered with the English entry "{a}x", as "1x".
C24_Witness ==
    \E s \in Slots :
       /\ h[s].pc = "returned"
       /\ h[s].kind = "formatTranslation"
       /\ h[s].languageCode = "uk"
       /\ Holds(h[s], "en")
       /\ h[s].translationsCache["en"][h[s].key] = <<"{", "a", "}", "x">>
       /\ h[s].params = <<Param(<<"a">>, <<"1">>)>>
       /\ ~Holds(h[s], "uk")
       /\ h[s].result = <<"1", "x">>

(* ================================ C27 ================================== *)

\* The text with every placeholder whose name is in params replaced by the
\* value supplied for it, and everything else as it is.
RECURSIVE Substituted(_, _, _)
Substituted(text, i, params) ==
    IF i > Len(text) THEN <<>>
    ELSE LET hits == {j \in 1..Len(params) :
                         MatchesAt(text, i, Placeholder(params[j].name))}
         IN IF hits # {}
            THEN LET j == CHOOSE k \in hits : TRUE
                 IN params[j].value
                    \o Substituted(text, i + Len(Placeholder(params[j].name)), params)
            ELSE <<text[i]>> \o Substituted(text, i + 1, params)

\* C27: formatTranslation replaces every occurrence of each placeholder
\* {name} whose name is a key of params by the value supplied for it and
\* leaves every other placeholder as it is.
C27_PlaceholdersReplacedByValues ==
    \A s \in Slots :
       (/\ h[s].pc = "returned"
        /\ h[s].kind = "formatTranslation"
        /\ h[s].translation # Null)
          => h[s].result = Substituted(h[s].translation[1], 1, h[s].params)

(* ================================ C25 ================================== *)

\* The entry the chain of the claim ends at: baseKey.<category> of the
\* language's catalog, else baseKey.other, else baseKey as formatTranslation
\* looks it up: in the language's catalog, else in the default catalog;
\* <<>> when none of them exists.
ChainEntry(f) ==
    LET translations == loadTranslations(f.translationsCache, f.languageCode)
        default == f.translationsCache[DEFAULT_LANGUAGE]
        pluralKey == PluralKey(f.baseKey, getPluralCategory(f.count, f.languageCode))
        otherKey == PluralKey(f.baseKey, "other")
    IN IF pluralKey \in DOMAIN translations THEN Some(translations[pluralKey])
       ELSE IF otherKey \in DOMAIN translations THEN Some(translations[otherKey])
       ELSE IF f.baseKey \in DOMAIN translations THEN Some(translations[f.baseKey])
       ELSE IF f.baseKey \in DOMAIN default THEN Some(default[f.baseKey])
       ELSE Null

\* C25: formatPluralTranslation follows the three steps of the fallback
\* chain: baseKey.<category> of the language's catalog, else baseKey.other,
\* else baseKey resolved as a plain key the way formatTranslation does
\* (default catalog included); whenever a step of the chain finds an
\* entry, that entry is the one substituted into and the result is not
\* empty.
C25_ThreeStepFallback ==
    \A s \in Slots :
       (/\ h[s].pc = "returned"
        /\ h[s].kind = "formatPluralTranslation"
        /\ ChainEntry(h[s]) # Null)
          => /\ h[s].translation = ChainEntry(h[s])
             /\ h[s].result # <<>>

(* ================================ C26 ================================== *)

\* C26: formatPluralTranslation does not overwrite an amount the caller
\* supplied: with params.amount = a the placeholder {amount} is replaced
\* by a, and by the count only when params has no amount.
C26_SuppliedAmountKept ==
    \A s \in Slots :
       (/\ h[s].pc = "returned"
        /\ h[s].kind = "formatPluralTranslation"
        /\ h[s].translation # Null)
          => LET f == h[s]
                 supplied == \E j \in 1..Len(f.params) : f.params[j].name = AMOUNT
             IN f.result =
                   Substituted(f.translation[1], 1,
                               IF supplied THEN f.params
                               ELSE Append(f.params,
                                           Param(AMOUNT, NumberToString(f.count))))

(* ================================ C28 ================================== *)

\* The pluralized phrase of a unit for a count, in the language of frame f.
UnitPhrase(f, baseKey, count) ==
    formatPluralTranslationText(f.translationsCache, baseKey, count,
                                f.languageCode, <<>>)

\* C28: formatDuration(seconds, lang) is the day phrase for count 1 when
\* seconds >= 86400; otherwise, with hours = floor(seconds / 3600) and
\* minutes = floor((seconds mod 3600) / 60), the hour phrase alone when
\* hours > 0 and minutes = 0, the hour phrase, one space and the minute
\* phrase when both are positive, and the minute phrase alone (possibly
\* for 0) when hours = 0. In English 1800 gives "30 minutes", 3600
\* "1 hour", 5400 "1 hour 30 minutes", 86400 and 90000 "1 day".
C28_FormatDurationShape ==
    \A s \in Slots :
       (h[s].pc = "returned" /\ h[s].kind = "formatDuration")
          => LET f == h[s]
                 seconds == f.durationSeconds
                 hours == seconds \div 3600
                 minutes == (seconds % 3600) \div 60
                 en == f.languageCode = "en"
             IN /\ seconds >= 86400 => f.result = UnitPhrase(f, DURATION_DAY, 1)
                /\ (seconds < 86400 /\ hours > 0 /\ minutes = 0)
                      => f.result = UnitPhrase(f, DURATION_HOUR, hours)
                /\ (seconds < 86400 /\ hours > 0 /\ minutes > 0)
                      => f.result = UnitPhrase(f, DURATION_HOUR, hours) \o <<" ">>
                                       \o UnitPhrase(f, DURATION_MINUTE, minutes)
                /\ (seconds < 86400 /\ hours = 0)
                      => f.result = UnitPhrase(f, DURATION_MINUTE, minutes)
                /\ (en /\ seconds = 1800) => f.result = <<"3", "0", " ", "m", "i", "n", "u", "t", "e", "s">>
                /\ (en /\ seconds = 3600) => f.result = <<"1", " ", "h", "o", "u", "r">>
                /\ (en /\ seconds = 5400) => f.result = <<"1", " ", "h", "o", "u", "r", " ", "3", "0", " ", "m", "i", "n", "u", "t", "e", "s">>
                /\ (en /\ seconds \in {86400, 90000}) => f.result = <<"1", " ", "d", "a", "y">>

\* 5400 seconds have been formatted in English: "1 hour 30 minutes".
C28_Witness ==
    \E s \in Slots :
       /\ h[s].pc = "returned"
       /\ h[s].kind = "formatDuration"
       /\ h[s].languageCode = "en"
       /\ h[s].durationSeconds = 5400
       /\ h[s].result = UnitPhrase(h[s], DURATION_HOUR, 1) \o <<" ">>
                            \o UnitPhrase(h[s], DURATION_MINUTE, 30)

(* ================================ C29 ================================== *)

\* C29: round trip. For every token parseDuration accepts and every
\* language, formatDuration of the parsed seconds is a non-empty text
\* without any unresolved {placeholder} whose units agree with the
\* duration: the day phrase for 86400 seconds, otherwise the phrases of
\* the hours and minutes that add up to the parsed seconds.
C29_ParseFormatRoundTrip ==
    \A s \in Slots :
       (h[s].pc = "returned" /\ h[s].kind = "parseDuration")
          => LET f == h[s]
                 seconds == f.parsedDuration[1]
             IN /\ f.result # <<>>
                /\ \A i \in 1..Len(f.result) : f.result[i] \notin {"{", "}"}
                /\ \/ seconds = 86400 /\ f.result = UnitPhrase(f, DURATION_DAY, 1)
                   \/ \E hours \in 0..23, minutes \in 0..59 :
                         /\ hours * 3600 + minutes * 60 = seconds
                         /\ f.result =
                               IF hours = 0
                               THEN UnitPhrase(f, DURATION_MINUTE, minutes)
                               ELSE IF minutes = 0
                               THEN UnitPhrase(f, DURATION_HOUR, hours)
                               ELSE UnitPhrase(f, DURATION_HOUR, hours) \o <<" ">>
                                       \o UnitPhrase(f, DURATION_MINUTE, minutes)

\* "45m" has been parsed and formatted in Ukrainian with a catalog that
\* has no 'many' form of the minute: the 'other' form is used, for 45.
C29_Witness ==
    \E s \in Slots :
       /\ h[s].pc = "returned"
       /\ h[s].kind = "parseDuration"
       /\ h[s].requestedDuration = <<"4", "5", "m">>
       /\ h[s].parsedDuration = Some(2700)
       /\ h[s].languageCode = "uk"
       /\ PluralKey(DURATION_MINUTE, "many") \notin DOMAIN h[s].translationsCache["uk"]
       /\ h[s].result = <<"4", "5", " ">> \o PluralKey(DURATION_MINUTE, "other")

(* ================================ C30 ================================== *)

\* The amount and the unit a button of frame f was built for.
EncodedAmount(f) ==
    IF f.requestedDuration # <<>> THEN StripLeadingZeros(f.requestedDuration)
    ELSE CASE f.data[Len(f.data)] = "m" -> <<"3", "0">>
           [] f.data[Len(f.data)] = "h" -> <<"8">>
           [] f.data[Len(f.data)] = "d" -> <<"1">>

\* C30: every callback payload handleMutemeCommand attaches to a button,
\* for the units m, h and d, is routed to handleMutemeCallbackQuery, matches
\* the pattern of that handler and decodes to the user id, the amount and
\* the unit it was built from: no button of the bot is dropped as an
\* invalid payload.
C30_EveryButtonDecodes ==
    \A s \in Slots :
       (h[s].pc = "clicked" /\ h[s].kind = "muteme")
          => /\ h[s].routed
             /\ h[s].match # Null
             /\ ParseInt(h[s].match[1].user) = h[s].userId
             /\ StripLeadingZeros(h[s].match[1].amount) = EncodedAmount(h[s])
             /\ h[s].match[1].unit = h[s].data[Len(h[s].data)]

(* ================================ C31 ================================== *)

\* The success line of a confirmation.
SuccessLine(c) == c.text[CHOOSE j \in 1..Len(c.text) : c.text[j].key = "muteme.success"]

\* C31: the duration phrase of every mute confirmation is formatDuration(d)
\* for exactly the d seconds of the restrictChatMember call of the same
\* request (until_date = now + d), on the command path, the defaulted
\* 1800 seconds of an invalid token included, and on the button path.
C31_ConfirmationAnnouncesAppliedDuration ==
    \A i \in 1..Len(calls) :
       IsConfirmation(calls[i]) =>
          \E j \in RestrictsOf(calls[i].slot) :
             /\ j < i
             /\ calls[j].outcome = "ok"
             /\ calls[j].until_date = calls[j].now + h[calls[i].slot].durationSeconds
             /\ SuccessLine(calls[i]).duration =
                   formatDuration(calls[j].until_date - calls[j].now,
                                  SuccessLine(calls[i]).lang)

\* A confirmation of the command path for an invalid token: restricted
\* for 1800 seconds, announced as 30 minutes, with the notice.
C31_Witness ==
    \E i \in 1..Len(calls) :
       /\ IsConfirmation(calls[i])
       /\ HasLine(calls[i].text, "muteme.invalid_duration")
       /\ h[calls[i].slot].kind = "muteme"
       /\ \E j \in RestrictsOf(calls[i].slot) :
             calls[j].until_date - calls[j].now = 1800
       /\ SuccessLine(calls[i]).duration =
             <<[baseKey |-> "duration.minute", category |-> "other",
                amount |-> <<"3", "0">>]>>

(* ================================ C32 ================================== *)

\* C32: the routing of callbacks keeps the two flows apart.  A callback
\* is handled by handleMutemeCallbackQuery exactly when its data starts
\* with muteme:, and by handleSetLangCallbackQuery otherwise; no step of a
\* muteme callback changes the stored chat language, and no request
\* handled by handleSetLangCallbackQuery ever has a restrictChatMember call.
C32_CallbackRoutingKeepsFlowsApart ==
    [][\A s \in Slots :
          /\ h'[s].kind \in {"mutemeCallback", "setlangCallback"} =>
                 (h'[s].kind = "mutemeCallback" <=>
                     StartsWith(h'[s].data, MutemePrefix))
          /\ (h[s].kind = "mutemeCallback" /\ h'[s] # h[s]) =>
                 CHAT_LANGUAGES' = CHAT_LANGUAGES
          /\ h'[s].kind = "setlangCallback" =>
                 \A i \in 1..Len(calls') :
                    calls'[i].slot = s => calls'[i].api # "restrictChatMember"
      ]_vars

\* A muteme click has restricted its user in a chat whose language an
\* earlier language selection stored.
C32_Witness ==
    \E s \in Slots :
       /\ h[s].kind = "mutemeCallback"
       /\ StartsWith(h[s].data, MutemePrefix)
       /\ \E j \in RestrictsOf(s) : calls[j].outcome = "ok"
       /\ CHAT_LANGUAGES = Some("uk")

(* ================================ C33 ================================== *)

\* The member-status lookup of the request failed: the request threw or
\* the response had no result.
LookupFailed(f) == f.lookup \in {"noresult", "throw"}

\* C33: a failed member-status lookup does not throw, it makes the caller
\* a non-administrator.  The step of the check ends no request with a
\* 500: a /muteme command or click goes on to restrictChatMember for its
\* user, and a /setlang request or a language selection goes to its
\* not_admin refusal, which ends the request with the store untouched.
C33_FailedLookupMeansNotAdmin ==
    [][\A s \in Slots :
          /\ (h[s].pc \in {"isChatAdministrator", "cbIsChatAdministrator",
                            "slIsChatAdministrator", "scIsChatAdministrator"}
               /\ LookupFailed(h'[s])) =>
                 /\ h'[s].status = 0
                 /\ h'[s].pc = CASE h[s].kind = "muteme" -> "restrictChatMember"
                                 [] h[s].kind = "mutemeCallback" -> "cbRestrictChatMember"
                                 [] h[s].kind = "setlang" -> "slSendNotAdmin"
                                 [] h[s].kind = "setlangCallback" -> "scSendNotAdmin"
          /\ (LookupFailed(h[s]) /\ h'[s] # h[s]
               /\ h[s].pc \in {"restrictChatMember", "cbRestrictChatMember"}) =>
                 /\ Len(calls') = Len(calls) + 1
                 /\ calls'[Len(calls')].api = "restrictChatMember"
                 /\ calls'[Len(calls')].user_id = h[s].userId
          /\ (LookupFailed(h[s]) /\ h'[s] # h[s]
               /\ h[s].kind \in {"setlang", "setlangCallback"}) =>
                 /\ CHAT_LANGUAGES' = CHAT_LANGUAGES
                 /\ h'[s].pc \in {"done", "idle"}
                 /\ h'[s].pc = "done" =>
                       /\ Len(calls') = Len(calls) + 1
                       /\ calls'[Len(calls')].api = "sendMessage"
                       /\ HasLine(calls'[Len(calls')].text,
                                  "language.set.error.not_admin")
                       /\ calls'[Len(calls')].buttons = <<>>
      ]_vars

\* The lookup of a language selection threw; the selection was refused
\* and the store does not hold the selected language.
C33_Witness ==
    \E s \in Slots :
       /\ h[s].kind = "setlangCallback"
       /\ h[s].lookup = "throw"
       /\ h[s].pc = "done" /\ h[s].status = 200
       /\ h[s].languageCode = "uk"
       /\ CHAT_LANGUAGES # Some("uk")
       /\ \E i \in 1..Len(calls) :
             /\ calls[i].slot = s
             /\ HasLine(calls[i].text, "language.set.error.not_admin")

(* ================================ C34 ================================== *)

\* C34: when the write of the language preference throws, setChatLanguage
\* rethrows: the request is over with status 500, it has sent no success
\* answer and has not deleted the prompt.
C34_FailedWriteAnswers500 ==
    \A s \in Slots :
       h[s].put = "throw" =>
          /\ h[s].kind = "setlangCallback"
          /\ h[s].pc = "done"
          /\ h[s].status = 500
          /\ \A i \in 1..Len(calls) :
                calls[i].slot = s =>
                   calls[i].api \notin {"answerCallbackQuery", "deleteMessage"}

\* The write of a selection made on the latest prompt threw, and the
\* prompt is still there.
C34_Witness ==
    \E s \in Slots :
       /\ h[s].put = "throw"
       /\ h[s].status = 500
       /\ prompt # <<>>
       /\ h[s].message_id = prompt[1].message_id
       /\ h[s].languageCode = "uk"

(* ================================ C35 ================================== *)

\* A callback query without its message, without data, or with data that
\* starts with muteme: and does not match muteme:<digits>:<digits>:<m|h|d>.
Unusable(f) ==
    /\ f.kind \in {"mutemeCallback", "setlangCallback"}
    /\ \/ ~f.hasMessage
       \/ f.data = <<>>
       \/ StartsWith(f.data, MutemePrefix) /\ MutemeDataMatch(f.data) = Null

\* C35: a callback query without its message, without data, or with
\* muteme: data that does not match the pattern causes no external call:
\* the step that takes it ends the request with status 200, reads neither
\* the store nor the member status, and leaves the calls, the store and
\* the prompt as they were.
C35_UnusableCallbackIsIgnored ==
    [][\A s \in Slots :
          (Unusable(h'[s]) /\ h'[s] # h[s]) =>
             /\ h'[s].pc = "done"
             /\ h'[s].status = 200
             /\ h'[s].kv = "" /\ h'[s].lookup = "" /\ h'[s].put = ""
             /\ UNCHANGED <<calls, CHAT_LANGUAGES, prompt>>
      ]_vars

\* A click with the payload muteme:1:5:s on a prompt that is there was
\* answered 200 without one call.
C35_Witness ==
    \E s \in Slots :
       /\ h[s].kind = "mutemeCallback"
       /\ h[s].hasMessage
       /\ h[s].data = MutemePrefix \o <<"1", ":", "5", ":", "s">>
       /\ h[s].pc = "done" /\ h[s].status = 200
       /\ prompt # <<>>
       /\ CallsOf(s) = <<>>

(* ================================ C36 ================================== *)

\* The calls of one api made for the request of slot s, as positions
CallsTo(s, api) ==
    {i \in 1..Len(calls) : calls[i].slot = s /\ calls[i].api = api}

\* C36: two deliveries of the click of the authorizing user, who is no
\* administrator, are processed independently of each other.  Once past
\* its restrict step, each delivery has made one restrictChatMember call
\* of its own, for its user and its own untilDate; when that call
\* succeeded the delivery goes on to delete the prompt, and a deletion
\* answered not ok does not end it: the delivery sends its own
\* confirmation, and ends with 500 only if that send throws.
C36_EachDeliveryRestrictsAndConfirms ==
    \A s \in Slots :
       (/\ h[s].kind = "mutemeCallback"
        /\ ClickByAuthor(h[s])
        /\ NotAdmin(h[s])
        /\ h[s].pc # "cbRestrictChatMember") =>
          /\ Cardinality(RestrictsOf(s)) = 1
          /\ \A j \in RestrictsOf(s) :
                /\ calls[j].user_id = h[s].userId
                /\ calls[j].until_date = h[s].untilDate
                /\ calls[j].outcome = "ok" =>
                      /\ h[s].pc \in {"cbDeleteMessage", "cbSendConfirmation", "done"}
                      /\ \A i \in CallsTo(s, "deleteMessage") :
                            calls[i].outcome = "notok" =>
                               /\ h[s].pc \in {"cbSendConfirmation", "done"}
                               /\ h[s].pc = "done" =>
                                     \E k \in CallsTo(s, "sendMessage") :
                                        /\ k > i
                                        /\ IsConfirmation(calls[k])
                                        /\ h[s].status = 500 <=>
                                              calls[k].outcome = "throw"

\* Both deliveries have restricted the user and sent a confirmation; the
\* first deleted the prompt, and the second, whose deletion came after
\* that one and was answered not ok, still confirmed.
C36_Witness ==
    /\ prompt = <<>>
    /\ \A s \in Slots :
          /\ h[s].pc = "done" /\ h[s].status = 200
          /\ \E j \in RestrictsOf(s) : calls[j].outcome = "ok"
          /\ \E k \in CallsTo(s, "sendMessage") :
                IsConfirmation(calls[k]) /\ calls[k].outcome = "ok"
    /\ \E i \in CallsTo(1, "deleteMessage"), j \in CallsTo(2, "deleteMessage") :
          /\ i < j
          /\ calls[i].outcome = "ok"
          /\ calls[j].outcome = "notok"

(* ================================ C37 ================================== *)

\* C37: for every count >= 0 the Ukrainian rule returns one, few or many,
\* never other, zero or two: one of the three tests before the final
\* 'other' branch of getUkrainianPluralCategory is true of the count, so
\* that branch is not taken.
C37_UkrainianRuleNeverOther ==
    \A s \in Slots :
       (h[s].pc = "returned" /\ h[s].languageCode = "uk") =>
          LET mod10 == h[s].count % 10
              mod100 == h[s].count % 100
          IN /\ h[s].pluralCategory \in {"one", "few", "many"}
             /\ h[s].pluralCategory \notin {"other", "zero", "two"}
             /\ \/ mod10 = 1 /\ mod100 # 11
                \/ mod10 >= 2 /\ mod10 <= 4 /\ (mod100 < 10 \/ mod100 >= 20)
                \/ mod10 = 0 \/ (mod10 >= 5 /\ mod10 <= 9)
                             \/ (mod100 >= 11 /\ mod100 <= 14)

\* The category of 0 in Ukrainian has been computed: many, by the last
\* test before the 'other' branch.
C37_Witness ==
    \E s \in Slots :
       /\ h[s].pc = "returned"
       /\ h[s].count = 0
       /\ h[s].languageCode = "uk"
       /\ h[s].pluralCategory = "many"

====
